---------------------------- MODULE Spec2Model ----------------------------
(***************************************************************************)
(* Model of seam's class-attribute engine (apps/seam-server/src/ast.ts):   *)
(* getClassNameExpression and updateClassNameWithAST, and the two HTTP      *)
(* handlers of the dev server that apply them to the served source file.   *)
(*                                                                         *)
(* Text is modelled as sequences of one-character strings over a small     *)
(* alphabet: the letters a, c, m, p, the space, the two quote characters,  *)
(* the backslash, "?", ":", "&", ";" and the intersection sign U+2229,     *)
(* which is written as one element of a sequence; "u", "2" and "9" occur   *)
(* only in its escape sequence.  The alphabet has no "{", "}", "<", ">" or *)
(* "/", so nested braces and tag delimiters never occur inside a value.    *)
(***************************************************************************)
EXTENDS Integers, Sequences, FiniteSets, Bags, TLC

VARIABLES
    sourceFile,   \* text of the served source file on disk
    call,         \* the last core call: its arguments and its outcome
    response,     \* the HTTP response of the last handled request
    handled,      \* number of requests handled so far
    inflight,     \* update requests the server received and has not handled
    received,     \* history: the update requests in the order they arrived
    startFile,    \* history: the source file when the server started
    elementData,                 \* sidepanel: the selected element's data, or none
    hoveredData,                 \* sidepanel: the hovered element's data, or none
    editedClassName,             \* sidepanel: text of the class textarea
    hasUserEditedRef,            \* sidepanel: hasUserEditedRef.current
    sourceClassNameExpression,   \* sidepanel: the source expression shown
    isSelected,                  \* sidepanel
    elementIndexState,           \* sidepanel: the elementIndex state
    devServerUrl,                \* sidepanel
    isConnected,                 \* sidepanel
    isGithubConnected,           \* sidepanel
    githubRepo,                  \* sidepanel
    githubChanges,               \* sidepanel: changes recorded for a pull request
    showDevServerModal,          \* sidepanel
    showRepoSelection,           \* sidepanel
    pending,      \* sidepanel: bag of the calls of the connections not yet settled
    reads,        \* the get-classname-expression fetches of the sidepanel
    saves,        \* the update-classes fetches of the sidepanel
    issued,       \* number of fetches the sidepanel has issued
    lastGesture,  \* history: the last selection message or user gesture
    showPRModal,  \* sidepanel
    prTitle,      \* sidepanel: title typed into the pull-request dialog
    isCreatingPR, \* sidepanel
    pr,           \* the running handleCreatePR call: its position and locals
    baseFiles,    \* GitHub: the files of the default branch
    branchFiles,  \* GitHub: the files of the branch of the pull request
    log,          \* history: the GitHub calls of the last handleCreatePR
    started,      \* number of handleCreatePR calls that passed the guards
    selectionModeEnabled,   \* content script
    selectedElement,        \* content script: the selected page element, or none
    hoveredElement,         \* content script: the page element the mouse was last over, or none
    pageClasses,            \* the page: the className of each of its elements
    styles,       \* bag of the UPDATE_STYLES and APPLY_STYLES messages under way
    toBackground, \* messages of the content script on their way to the background script
    toPanel,      \* messages on their way to the sidepanel
    sent          \* number of messages the content script has sent

serverVars == <<sourceFile, call, response, handled>>

queueVars == <<inflight, received, startFile>>

\* the sidepanel's modals of the connections and their pending steps
setupVars == <<showDevServerModal, showRepoSelection, pending>>

panelVars ==
    <<elementData, hoveredData, editedClassName, hasUserEditedRef, sourceClassNameExpression,
      isSelected, elementIndexState, devServerUrl, isConnected, isGithubConnected,
      githubRepo, githubChanges, reads, saves, issued, lastGesture, setupVars>>

\* the sidepanel's state other than the recorded changes
selectionVars ==
    <<elementData, hoveredData, editedClassName, hasUserEditedRef, sourceClassNameExpression,
      isSelected, elementIndexState, devServerUrl, isConnected, isGithubConnected,
      githubRepo, reads, saves, issued, lastGesture, setupVars>>

\* the selection, its textarea and its fetches
editVars ==
    <<elementData, hoveredData, editedClassName, hasUserEditedRef, sourceClassNameExpression,
      isSelected, elementIndexState, reads, saves, issued, lastGesture>>

prVars == <<showPRModal, prTitle, isCreatingPR, pr, baseFiles, branchFiles, log, started>>

\* the content script, its page and its messages
scriptVars ==
    <<selectionModeEnabled, selectedElement, hoveredElement, pageClasses,
      toBackground, toPanel, sent>>

contentVars == <<scriptVars, styles>>

vars == <<serverVars, queueVars, panelVars, prVars, contentVars>>

\* the selection, its textarea and its fetches without the hover data
editVarsButHover ==
    <<elementData, editedClassName, hasUserEditedRef, sourceClassNameExpression,
      isSelected, elementIndexState, reads, saves, issued, lastGesture>>

\* a call of the kind is outstanding
Outstanding(kind) == BagIn(kind, pending)

\* a bag of calls or messages after one more of the kind was made or sent
Started(calls, kind) == calls (+) SetToBag({kind})

\* a bag of calls or messages after one of the kind has settled or arrived
Settled(calls, kind) == calls (-) SetToBag({kind})

----------------------------------------------------------------------------
(* Bounds of the model *)

\* largest ordinal a request carries
MaxIndex == 2

\* largest number of JSX elements in the generated initial source files
MaxElements == 2

\* number of requests the server handles in one run
MaxRequests == 1

\* number of update requests that reach the server while others are pending
MaxInFlight == 2

\* number of fetches the sidepanel issues in one run
MaxFetches == 2

\* number of changes recorded for a pull request
MaxChanges == 2

\* number of handleCreatePR calls in one run
MaxPRs == 1

\* number of messages the content script sends in one run
MaxMessages == 3

\* number of UPDATE_STYLES and APPLY_STYLES messages under way together
MaxStyles == 1

\* number of health checks of handleConnect, and of access checks of
\* handleRepoSelect, outstanding together
MaxCalls == 2

----------------------------------------------------------------------------
(* Characters *)

SQ == "'"

DQ == "\""

BS == "\\"

SP == " "

AMP == "&"

SEMI == ";"

Letters == {"a", "c", "m", "p"}

\* the character U+2229 (the intersection sign), the one character of the
\* alphabet outside ASCII
CAP == "U+2229"

\* \u2229, the escape sequence of CAP
CapEscape == <<BS, "u", "2", "2", "2", "9">>

----------------------------------------------------------------------------
(* @babel/parser parseExpression, restricted to the alphabet: identifiers, *)
(* string literals, the binary operators "??", "&&" and "&", and "?:".     *)

\* index of the quote closing a JS string whose body starts at i; 0 when the
\* string is unterminated.  A backslash escapes the character after it.
RECURSIVE ScanString(_, _, _)
ScanString(s, i, q) ==
    IF i > Len(s) THEN 0
    ELSE IF s[i] = q THEN i
    ELSE ScanString(s, i + (IF s[i] = BS THEN 2 ELSE 1), q)

\* value of the JS string body s[i..j]: \u2229 stands for U+2229 and "\x"
\* stands for x for every other x of the alphabet (none of a, c, m, p,
\* space, quotes, "?", ":" is a special escape)
RECURSIVE Cook(_, _, _)
Cook(s, i, j) ==
    IF i > j THEN << >>
    ELSE IF i + 5 <= j /\ SubSeq(s, i, i + 5) = CapEscape
    THEN <<CAP>> \o Cook(s, i + 6, j)
    ELSE LET at == IF s[i] = BS THEN i + 1 ELSE i
         IN  <<s[at]>> \o Cook(s, at + 1, j)

\* index of the last letter of the identifier starting at i
RECURSIVE IdentEnd(_, _)
IdentEnd(s, i) ==
    IF i + 1 <= Len(s) /\ s[i + 1] \in Letters THEN IdentEnd(s, i + 1) ELSE i

\* the token starting at position i of s (s[i] is not a space), and the
\* position after it
NextToken(s, i) ==
    IF s[i] \in Letters THEN
        LET e == IdentEnd(s, i)
        IN  [ok |-> TRUE, next |-> e + 1,
             tok |-> [t |-> "name", text |-> SubSeq(s, i, e)]]
    ELSE IF s[i] \in {SQ, DQ} THEN
        LET e == ScanString(s, i + 1, s[i])
        IN  IF e = 0 THEN [ok |-> FALSE]      \* unterminated string constant
            ELSE [ok |-> TRUE, next |-> e + 1,
                  tok |-> [t |-> "string", text |-> SubSeq(s, i, e),
                           value |-> Cook(s, i + 1, e - 1)]]
    ELSE IF s[i] = "?" /\ i + 1 <= Len(s) /\ s[i + 1] = "?" THEN
        [ok |-> TRUE, next |-> i + 2, tok |-> [t |-> "??"]]
    ELSE IF s[i] = AMP /\ i + 1 <= Len(s) /\ s[i + 1] = AMP THEN
        [ok |-> TRUE, next |-> i + 2, tok |-> [t |-> "&&"]]
    ELSE IF s[i] \in {"?", ":", AMP, SEMI} THEN
        [ok |-> TRUE, next |-> i + 1, tok |-> [t |-> s[i]]]
    ELSE [ok |-> FALSE]        \* a backslash or U+2229 outside a string

\* the tokens of s from position i on, after the tokens toks read so far
RECURSIVE Tokenize(_, _, _)
Tokenize(s, i, toks) ==
    IF i > Len(s) THEN [ok |-> TRUE, toks |-> toks]
    ELSE IF s[i] = SP THEN Tokenize(s, i + 1, toks)
    ELSE LET n == NextToken(s, i)
         IN  IF n.ok THEN Tokenize(s, n.next, Append(toks, n.tok))
             ELSE [ok |-> FALSE, toks |-> << >>]

NoParse == [ok |-> FALSE]

TokIs(toks, k, t) == k <= Len(toks) /\ toks[k].t = t

\* parseExprAtom: an identifier or a string literal
ParseAtom(toks, k) ==
    IF TokIs(toks, k, "name")
    THEN [ok |-> TRUE, next |-> k + 1,
          node |-> [type |-> "Identifier", name |-> toks[k].text]]
    ELSE IF TokIs(toks, k, "string")
    THEN [ok |-> TRUE, next |-> k + 1,
          node |-> [type |-> "StringLiteral", value |-> toks[k].value,
                    raw |-> toks[k].text, hasRaw |-> TRUE]]
    ELSE NoParse

\* the node of left op right
OperatorNode(op, left, right) ==
    [type |-> IF op \in {"??", "&&"} THEN "LogicalExpression" ELSE "BinaryExpression",
     operator |-> op, left |-> left, right |-> right]

IsOperator(toks, k) == TokIs(toks, k, "??") \/ TokIs(toks, k, "&&") \/ TokIs(toks, k, AMP)

\* tokenOperatorPrecedence: nullishCoalescing 1, logicalAND 2, bitwiseAND 5
Precedence(op) == IF op = "??" THEN 1 ELSE IF op = "&&" THEN 2 ELSE 5

\* the precedence the right operand of op is parsed with: for "??" that of
\* logicalAND
RightPrecedence(op) == IF op = "??" THEN Precedence("&&") ELSE Precedence(op)

\* "??" next to "&&" without parentheses is a SyntaxError
MixesCoalesceWithLogical(op, toks, k) ==
    \/ op = "??" /\ TokIs(toks, k, "&&")
    \/ op = "&&" /\ TokIs(toks, k, "??")

\* parseExprOp: the operators after the operand left that bind tighter than
\* minPrec
RECURSIVE ParseExprOp(_, _, _, _)

\* parseExprOp after the right operand r of the operator at k
ParseOpAfterRight(toks, k, left, minPrec, r) ==
    IF ~r.ok \/ MixesCoalesceWithLogical(toks[k].t, toks, r.next) THEN NoParse
    ELSE ParseExprOp(toks, r.next, OperatorNode(toks[k].t, left, r.node), minPrec)

\* parseExprOpRightExpr: the operand a, then the operators that bind tighter
ParseOpRight(toks, k, a) ==
    IF ~a.ok THEN NoParse
    ELSE ParseExprOp(toks, a.next, a.node, RightPrecedence(toks[k].t))

ParseExprOp(toks, k, left, minPrec) ==
    IF IsOperator(toks, k) /\ Precedence(toks[k].t) > minPrec
    THEN ParseOpAfterRight(toks, k, left, minPrec,
                           ParseOpRight(toks, k, ParseAtom(toks, k + 1)))
    ELSE [ok |-> TRUE, next |-> k, node |-> left]

ParseExprOps(toks, k) ==
    LET a == ParseAtom(toks, k)
    IN  IF a.ok THEN ParseExprOp(toks, a.next, a.node, -1) ELSE NoParse

\* parseMaybeConditional: test [? consequent : alternate]
RECURSIVE ParseMaybeConditional(_, _)

\* parseConditional, once test, consequent and alternate are parsed
ConditionalOf(e, c, a) ==
    IF ~a.ok THEN NoParse
    ELSE [ok |-> TRUE, next |-> a.next,
          node |-> [type |-> "ConditionalExpression", test |-> e.node,
                    consequent |-> c.node, alternate |-> a.node]]

\* parseConditional after the consequent c: expect ":" and the alternate
ParseAlternate(toks, e, c) ==
    IF ~c.ok \/ ~TokIs(toks, c.next, ":") THEN NoParse
    ELSE ConditionalOf(e, c, ParseMaybeConditional(toks, c.next + 1))

\* parseConditional after the test e
ParseConditional(toks, e) ==
    IF ~e.ok THEN NoParse
    ELSE IF ~TokIs(toks, e.next, "?") THEN e
    ELSE ParseAlternate(toks, e, ParseMaybeConditional(toks, e.next + 1))

ParseMaybeConditional(toks, k) == ParseConditional(toks, ParseExprOps(toks, k))

\* the expression is accepted when it ends where the tokens end
ParseToEnd(r, n) ==
    IF r.ok /\ r.next = n + 1 THEN [ok |-> TRUE, node |-> r.node] ELSE NoParse

ParseTokens(l) ==
    IF ~l.ok THEN NoParse
    ELSE ParseToEnd(ParseMaybeConditional(l.toks, 1), Len(l.toks))

\* parser.parseExpression(text): ok = FALSE stands for the SyntaxError thrown
ParseExpression(text) == ParseTokens(Tokenize(text, 1, << >>))

----------------------------------------------------------------------------
(* @babel/generator on the node kinds above *)

\* jsesc(value, {quotes: "double", wrap: true, minimal: false}): how the
\* generator prints a string literal that carries no raw text.  The double
\* quote and the backslash get a backslash, a character outside printable
\* ASCII is written as its \uXXXX escape.
EscapedChar(ch) ==
    IF ch \in {DQ, BS} THEN <<BS, ch>>
    ELSE IF ch = CAP THEN CapEscape
    ELSE <<ch>>

RECURSIVE JsescBody(_)
JsescBody(v) ==
    IF v = << >> THEN << >> ELSE EscapedChar(Head(v)) \o JsescBody(Tail(v))

Jsesc(v) == <<DQ>> \o JsescBody(v) \o <<DQ>>

\* StringLiteral printer: the raw text when the node has one, else jsesc
PrintStringLiteral(node) == IF node.hasRaw THEN node.raw ELSE Jsesc(node.value)

\* the operands of an expression and the text printed after each of them
Operands(node) ==
    CASE node.type \in {"LogicalExpression", "BinaryExpression"} ->
            <<node.left, node.right>>
      [] node.type = "ConditionalExpression" ->
            <<node.test, node.consequent, node.alternate>>
      [] OTHER -> << >>

Separators(node) ==
    CASE node.type = "LogicalExpression" /\ node.operator = "??" ->
            <<<<SP, "?", "?", SP>>, << >>>>
      [] node.type = "LogicalExpression" -> <<<<SP, AMP, AMP, SP>>, << >>>>
      [] node.type = "BinaryExpression" -> <<<<SP, AMP, SP>>, << >>>>
      [] node.type = "ConditionalExpression" ->
            <<<<SP, "?", SP>>, <<SP, ":", SP>>, << >>>>
      [] OTHER -> << >>

RECURSIVE Concat(_)
Concat(parts) == IF parts = << >> THEN << >> ELSE Head(parts) \o Concat(Tail(parts))

\* the generator on an expression: identifiers and literals as they are,
\* a ?? b, a && b, a & b, and test ? consequent : alternate
RECURSIVE GenerateExpression(_)
GenerateExpression(node) ==
    CASE node.type = "Identifier" -> node.name
      [] node.type = "StringLiteral" -> PrintStringLiteral(node)
      [] OTHER ->
            Concat([k \in 1..Len(Operands(node)) |->
                      GenerateExpression(Operands(node)[k]) \o Separators(node)[k]])

----------------------------------------------------------------------------
(* Source text of a file and its syntax tree.                              *)
(*                                                                         *)
(* A file's text is its JSX opening elements in document order (the order  *)
(* in which traverse visits JSXOpeningElement nodes), each attribute value *)
(* as written; syntaxOk = FALSE is text with a syntax error outside the    *)
(* attributes; layout tells the developer's own formatting ("source") from *)
(* the formatting @babel/generator prints ("generated").                   *)

JSXIdentifier(n) == [type |-> "JSXIdentifier", name |-> n]

JSXMemberExpression(n) == [type |-> "JSXMemberExpression", name |-> n]

Null == [type |-> "null"]

\* t.stringLiteral(value): a new node, without raw text
StringLiteral(v) ==
    [type |-> "StringLiteral", value |-> v, raw |-> << >>, hasRaw |-> FALSE]

\* t.jsxExpressionContainer(expression)
JSXExpressionContainer(e) == [type |-> "JSXExpressionContainer", expression |-> e]

\* t.jsxAttribute(name, value)
JSXAttribute(n, v) == [type |-> "JSXAttribute", name |-> n, value |-> v]

JSXSpreadAttribute == [type |-> "JSXSpreadAttribute"]

\* attribute values as text
TextString(raw) == [form |-> "string", text |-> raw]

TextContainer(src) == [form |-> "container", text |-> src]

TextNone == [form |-> "none", text |-> << >>]

\* jsxReadString: a JSX attribute string runs from its opening quote to the
\* next occurrence of that quote; backslashes are ordinary characters and
\* "&name;" stands for the character the entity names.  Text
\* left between that quote and the end of the printed literal is a syntax
\* error in the opening tag.
RECURSIVE IndexOf(_, _, _)
IndexOf(s, i, ch) ==
    IF i > Len(s) THEN 0 ELSE IF s[i] = ch THEN i ELSE IndexOf(s, i + 1, ch)

\* the XHTML entities the alphabet can spell, and the characters they name
EntityNames == {<<"a", "m", "p">>, <<"c", "a", "p">>}

EntityChar(name) == IF name = <<"a", "m", "p">> THEN AMP ELSE CAP

\* longest entity text jsxReadEntity looks at after the "&"
MaxEntityLength == 10

\* jsxReadEntity at the "&" at position i, e being the position of the next
\* ";" (0 when there is none): the decoded character and the position after
\* the entity, or the "&" itself
JsxReadEntity(s, i, e) ==
    IF e # 0 /\ e - i <= MaxEntityLength /\ SubSeq(s, i + 1, e - 1) \in EntityNames
    THEN [text |-> <<EntityChar(SubSeq(s, i + 1, e - 1))>>, next |-> e + 1]
    ELSE [text |-> <<AMP>>, next |-> i + 1]

\* the value of the string body s from position i on, after out
RECURSIVE JsxStringValue(_, _, _)

JsxAfterEntity(s, r, out) == JsxStringValue(s, r.next, out \o r.text)

JsxStringValue(s, i, out) ==
    IF i > Len(s) THEN out
    ELSE IF s[i] = AMP
    THEN JsxAfterEntity(s, JsxReadEntity(s, i, IndexOf(s, i + 1, SEMI)), out)
    ELSE JsxStringValue(s, i + 1, Append(out, s[i]))

JsxReadString(raw) ==
    LET e == IndexOf(raw, 2, raw[1])
    IN  IF e = Len(raw) /\ e >= 2
        THEN [ok |-> TRUE,
              node |-> [type |-> "StringLiteral",
                        value |-> JsxStringValue(SubSeq(raw, 2, e - 1), 1, << >>),
                        raw |-> raw, hasRaw |-> TRUE]]
        ELSE NoParse

\* the value node of a parsed {expression}
ContainerOf(r) ==
    IF r.ok THEN [ok |-> TRUE, node |-> JSXExpressionContainer(r.node)] ELSE NoParse

\* jsxParseAttributeValue
ParseAttributeValue(v) ==
    CASE v.form = "none" -> [ok |-> TRUE, node |-> Null]
      [] v.form = "string" -> JsxReadString(v.text)
      [] v.form = "container" -> ContainerOf(ParseExpression(v.text))

AttributeOf(name, r) ==
    IF r.ok THEN [ok |-> TRUE, node |-> JSXAttribute(name, r.node)] ELSE NoParse

ParseAttribute(a) ==
    IF a.type = "JSXSpreadAttribute" THEN [ok |-> TRUE, node |-> a]
    ELSE AttributeOf(a.name, ParseAttributeValue(a.value))

ElementOf(name, rs) ==
    IF \A k \in 1..Len(rs) : rs[k].ok
    THEN [ok |-> TRUE,
          node |-> [name |-> name, attributes |-> [k \in 1..Len(rs) |-> rs[k].node]]]
    ELSE NoParse

ParseElement(e) ==
    ElementOf(e.name, [k \in 1..Len(e.attributes) |-> ParseAttribute(e.attributes[k])])

ProgramOf(syntaxOk, rs) ==
    IF syntaxOk /\ \A k \in 1..Len(rs) : rs[k].ok
    THEN [ok |-> TRUE, elements |-> [k \in 1..Len(rs) |-> rs[k].node]]
    ELSE NoParse

\* parser.parse(sourceCode, {plugins: jsx, typescript, decorators-legacy}):
\* ok = FALSE stands for the SyntaxError thrown
Parse(sourceCode) ==
    ProgramOf(sourceCode.syntaxOk,
              [k \in 1..Len(sourceCode.elements) |-> ParseElement(sourceCode.elements[k])])

PrintAttributeValue(v) ==
    CASE v.type = "null" -> TextNone
      [] v.type = "StringLiteral" -> TextString(PrintStringLiteral(v))
      [] v.type = "JSXExpressionContainer" ->
            TextContainer(GenerateExpression(v.expression))

PrintAttribute(a) ==
    IF a.type = "JSXSpreadAttribute" THEN a
    ELSE JSXAttribute(a.name, PrintAttributeValue(a.value))

\* generate(ast, {retainLines: false, compact: false}, sourceCode).code: the
\* whole file is printed anew
Generate(elements) ==
    [syntaxOk |-> TRUE,
     layout |-> "generated",
     elements |-> [k \in 1..Len(elements) |->
                     [name |-> elements[k].name,
                      attributes |-> [j \in 1..Len(elements[k].attributes) |->
                                        PrintAttribute(elements[k].attributes[j])]]]]

----------------------------------------------------------------------------
(* The optional elementIndex argument *)

Undefined == [defined |-> FALSE]

Ordinal(n) == [defined |-> TRUE, value |-> n]

----------------------------------------------------------------------------
(* getClassNameExpression (ast.ts 12-66) *)

\* the predicate given to attributes.find / attributes.findIndex
IsClassNameAttr(attr) ==
    /\ attr.type = "JSXAttribute"
    /\ attr.name.type = "JSXIdentifier"
    /\ attr.name.name = "className"

\* node.attributes.findIndex(...), 1-based; 0 when there is none (-1 in the code)
FindClassNameIndex(attributes) ==
    IF \E k \in 1..Len(attributes) : IsClassNameAttr(attributes[k])
    THEN CHOOSE k \in 1..Len(attributes) :
            /\ IsClassNameAttr(attributes[k])
            /\ \A j \in 1..(k - 1) : ~IsClassNameAttr(attributes[j])
    ELSE 0

\* t.isJSXIdentifier(node.name) && node.name.name === tagName
TagMatches(node, tagName) ==
    node.name.type = "JSXIdentifier" /\ node.name.name = tagName

\* mutant: the guard written with < in place of !==
SkipsOccurrenceBelow(elementIndex, foundCount) ==
    elementIndex.defined /\ foundCount < elementIndex.value

\* mutant: without an ordinal only the first match is selected
SkipsOccurrenceAfterFirst(elementIndex, foundCount) ==
    IF elementIndex.defined THEN foundCount # elementIndex.value ELSE foundCount # 0

\* the guard that skips a match whose running count is not the ordinal
SkipsOccurrence(elementIndex, foundCount) ==
    elementIndex.defined /\ foundCount # elementIndex.value

\* the assignment to classNameExpression for the attribute value v; other
\* leaves the variable as it is
ReadValue(v, other) ==
    CASE v.type = "StringLiteral" -> [type |-> "string", value |-> v.value]
      [] v.type = "JSXExpressionContainer" ->
            [type |-> "string", value |-> GenerateExpression(v.expression)]
      [] OTHER -> other

\* the visitor's body once the element is selected; k is the position of its
\* className attribute, 0 when it has none
ReadSelected(st, node, k) ==
    IF k = 0 THEN st
    ELSE [foundCount |-> st.foundCount + 1,
          classNameExpression |->
              ReadValue(node.attributes[k].value, st.classNameExpression)]

\* one call of the reader's JSXOpeningElement visitor; st is the pair of
\* closure variables foundCount and classNameExpression
ReadVisit(st, node, tagName, elementIndex) ==
    IF ~TagMatches(node, tagName) THEN st
    ELSE IF SkipsOccurrence(elementIndex, st.foundCount)
    THEN [st EXCEPT !.foundCount = @ + 1]
    ELSE ReadSelected(st, node, FindClassNameIndex(node.attributes))

\* traverse(ast, {JSXOpeningElement}) of the reader over elements k..
RECURSIVE ReadTraverse(_, _, _, _, _)
ReadTraverse(st, elements, k, tagName, elementIndex) ==
    IF k > Len(elements) THEN st
    ELSE ReadTraverse(ReadVisit(st, elements[k], tagName, elementIndex),
                      elements, k + 1, tagName, elementIndex)

\* the body of the try block, given the parse result
ReadAst(ast, tagName, elementIndex) ==
    IF ~ast.ok THEN Null
    ELSE ReadTraverse([foundCount |-> 0, classNameExpression |-> Null],
                      ast.elements, 1, tagName, elementIndex).classNameExpression

\* the value returned: a string or null; a parse error is caught and null
\* returned
getClassNameExpression(sourceCode, tagName, elementIndex) ==
    ReadAst(Parse(sourceCode), tagName, elementIndex)

----------------------------------------------------------------------------
(* updateClassNameWithAST (ast.ts 68-169) *)

\* the value given to an existing className attribute (ast.ts 104-117),
\* parsed being the outcome of parseExpression(newClassName)
ReplacedValueOf(parsed, newClassName) ==
    IF ~parsed.ok THEN StringLiteral(newClassName)
    ELSE IF parsed.node.type = "ConditionalExpression"
    THEN JSXExpressionContainer(parsed.node)
    ELSE IF parsed.node.type = "StringLiteral" THEN parsed.node
    ELSE StringLiteral(newClassName)

\* the replacing value for newClassName
ReplacedValue(newClassName) ==
    ReplacedValueOf(ParseExpression(newClassName), newClassName)

\* the value of the className attribute pushed when there is none
\* (ast.ts 121-147)
AppendedValueOf(parsed, newClassName) ==
    IF ~parsed.ok THEN StringLiteral(newClassName)
    ELSE IF parsed.node.type = "ConditionalExpression"
    THEN JSXExpressionContainer(parsed.node)
    ELSE StringLiteral(newClassName)

\* mutant: the push branch without its conditional case
AppendedValueLiteralOnly(newClassName) == StringLiteral(newClassName)

\* the pushed value for newClassName
AppendedValue(newClassName) ==
    AppendedValueOf(ParseExpression(newClassName), newClassName)

\* mutant: className is pushed even when the element already has one
WriteAttributesAlwaysPush(attributes, newClassName) ==
    Append(attributes,
           JSXAttribute(JSXIdentifier("className"), AppendedValue(newClassName)))

\* mutant: an existing className is taken out and pushed anew at the end
WriteAttributesAtMovesToEnd(attributes, k, newClassName) ==
    Append(SelectSeq(attributes, LAMBDA a : ~IsClassNameAttr(a)),
           JSXAttribute(JSXIdentifier("className"),
                        IF k # 0 THEN ReplacedValue(newClassName)
                        ELSE AppendedValue(newClassName)))

\* the attribute list of a selected element after the visitor's mutation; k is
\* classNameIndex, 0 when there is none
WriteAttributesAt(attributes, k, newClassName) ==
    IF k # 0
    THEN [attributes EXCEPT ![k].value = ReplacedValue(newClassName)]
    ELSE Append(attributes,
                JSXAttribute(JSXIdentifier("className"), AppendedValue(newClassName)))

WriteAttributes(attributes, newClassName) ==
    WriteAttributesAt(attributes, FindClassNameIndex(attributes), newClassName)

\* one call of the writer's JSXOpeningElement visitor on element k; st holds
\* the closure variables foundCount and updated and the elements as mutated
\* so far
WriteVisit(st, k, tagName, newClassName, elementIndex) ==
    IF ~TagMatches(st.elements[k], tagName) THEN st
    ELSE IF SkipsOccurrence(elementIndex, st.foundCount)
    THEN [st EXCEPT !.foundCount = @ + 1]
    ELSE [foundCount |-> st.foundCount + 1,
          updated |-> TRUE,
          elements |-> [st.elements EXCEPT
                          ![k].attributes = WriteAttributes(@, newClassName)]]

RECURSIVE WriteTraverse(_, _, _, _, _)
WriteTraverse(st, k, tagName, newClassName, elementIndex) ==
    IF k > Len(st.elements) THEN st
    ELSE WriteTraverse(WriteVisit(st, k, tagName, newClassName, elementIndex),
                       k + 1, tagName, newClassName, elementIndex)

\* mutant: the tree is printed whether or not the visitor updated it
WriteResultAlwaysPrints(st, sourceCode) ==
    [type |-> "return", code |-> Generate(st.elements)]

\* the text returned after the traversal ended in st
WriteResult(st, sourceCode) ==
    IF st.updated
    THEN [type |-> "return", code |-> Generate(st.elements)]
    ELSE [type |-> "return", code |-> sourceCode]

\* the body of the try block, given the parse result
WriteAst(ast, sourceCode, tagName, newClassName, elementIndex) ==
    IF ~ast.ok THEN [type |-> "throw"]
    ELSE WriteResult(WriteTraverse([foundCount |-> 0, updated |-> FALSE,
                                    elements |-> ast.elements],
                                   1, tagName, newClassName, elementIndex),
                     sourceCode)

\* the outcome: the text returned, or the SyntaxError rethrown
updateClassNameWithAST(sourceCode, tagName, newClassName, elementIndex) ==
    WriteAst(Parse(sourceCode), sourceCode, tagName, newClassName, elementIndex)

----------------------------------------------------------------------------
(* The Vite plugin's copy of updateClassNameWithAST (vite.config.ts 92-197) *)

\* the predicate given to node.attributes.findIndex
ViteIsClassNameAttr(attr) ==
    /\ attr.type = "JSXAttribute"
    /\ attr.name.type = "JSXIdentifier"
    /\ attr.name.name = "className"

\* classNameIndex, 1-based; 0 when there is none (-1 in the code)
ViteClassNameIndex(attributes) ==
    IF \E k \in 1..Len(attributes) : ViteIsClassNameAttr(attributes[k])
    THEN CHOOSE k \in 1..Len(attributes) :
            /\ ViteIsClassNameAttr(attributes[k])
            /\ \A j \in 1..(k - 1) : ~ViteIsClassNameAttr(attributes[j])
    ELSE 0

\* the value assigned to an existing className, parsed being the outcome of
\* parseExpression(newClassName)
ViteReplacedValueOf(parsed, newClassName) ==
    IF ~parsed.ok THEN StringLiteral(newClassName)
    ELSE IF parsed.node.type = "ConditionalExpression"
    THEN JSXExpressionContainer(parsed.node)
    ELSE IF parsed.node.type = "StringLiteral" THEN parsed.node
    ELSE StringLiteral(newClassName)

\* the value of the className attribute pushed when there is none
ViteAppendedValueOf(parsed, newClassName) ==
    IF ~parsed.ok THEN StringLiteral(newClassName)
    ELSE IF parsed.node.type = "ConditionalExpression"
    THEN JSXExpressionContainer(parsed.node)
    ELSE StringLiteral(newClassName)

\* the attribute list after the visitor's mutation; k is classNameIndex
ViteAttributesAt(attributes, k, newClassName) ==
    IF k # 0
    THEN [attributes EXCEPT
            ![k].value = ViteReplacedValueOf(ParseExpression(newClassName), newClassName)]
    ELSE Append(attributes,
                JSXAttribute(JSXIdentifier("className"),
                    ViteAppendedValueOf(ParseExpression(newClassName), newClassName)))

\* one call of the JSXOpeningElement visitor on element k
ViteVisit(st, k, tagName, newClassName, elementIndex) ==
    IF ~(st.elements[k].name.type = "JSXIdentifier"
         /\ st.elements[k].name.name = tagName)
    THEN st
    ELSE IF elementIndex.defined /\ st.foundCount # elementIndex.value
    THEN [st EXCEPT !.foundCount = @ + 1]
    ELSE [foundCount |-> st.foundCount + 1,
          updated |-> TRUE,
          elements |-> [st.elements EXCEPT
                          ![k].attributes =
                              ViteAttributesAt(@, ViteClassNameIndex(@), newClassName)]]

RECURSIVE ViteTraverse(_, _, _, _, _)
ViteTraverse(st, k, tagName, newClassName, elementIndex) ==
    IF k > Len(st.elements) THEN st
    ELSE ViteTraverse(ViteVisit(st, k, tagName, newClassName, elementIndex),
                     k + 1, tagName, newClassName, elementIndex)

\* if (updated) return output.code; ... return sourceCode
ViteResult(st, sourceCode) ==
    [type |-> "return",
     code |-> IF st.updated THEN Generate(st.elements) ELSE sourceCode]

\* the try block, given the parse result; the catch rethrows
ViteAst(ast, sourceCode, tagName, newClassName, elementIndex) ==
    IF ~ast.ok THEN [type |-> "throw"]
    ELSE ViteResult(ViteTraverse([foundCount |-> 0, updated |-> FALSE,
                                elements |-> ast.elements],
                               1, tagName, newClassName, elementIndex),
                   sourceCode)

\* updateClassNameWithAST of vite.config.ts
ViteUpdateClassNameWithAST(sourceCode, tagName, newClassName, elementIndex) ==
    ViteAst(Parse(sourceCode), sourceCode, tagName, newClassName, elementIndex)

----------------------------------------------------------------------------
(* The extension's updateFileContent (fileUpdater.ts), which handleCreatePR
   applies to the repository's copy of the file *)

\* the predicate given to node.attributes.findIndex
FileUpdaterIsClassNameAttr(attr) ==
    /\ attr.type = "JSXAttribute"
    /\ attr.name.type = "JSXIdentifier"
    /\ attr.name.name = "className"

\* classNameIndex, 1-based; 0 when there is none (-1 in the code)
FileUpdaterClassNameIndex(attributes) ==
    IF \E k \in 1..Len(attributes) : FileUpdaterIsClassNameAttr(attributes[k])
    THEN CHOOSE k \in 1..Len(attributes) :
            /\ FileUpdaterIsClassNameAttr(attributes[k])
            /\ \A j \in 1..(k - 1) : ~FileUpdaterIsClassNameAttr(attributes[j])
    ELSE 0

\* the value assigned to an existing className, parsed being the outcome of
\* parseExpression(newClassName)
FileUpdaterReplacedValueOf(parsed, newClassName) ==
    IF ~parsed.ok THEN StringLiteral(newClassName)
    ELSE IF parsed.node.type = "ConditionalExpression"
    THEN JSXExpressionContainer(parsed.node)
    ELSE IF parsed.node.type = "StringLiteral" THEN parsed.node
    ELSE StringLiteral(newClassName)

\* mutant: the push branch is given the string-literal case of the replace
\* branch in this copy only
FileUpdaterAppendedValueOfWithLiteral(parsed, newClassName) ==
    IF ~parsed.ok THEN StringLiteral(newClassName)
    ELSE IF parsed.node.type = "ConditionalExpression"
    THEN JSXExpressionContainer(parsed.node)
    ELSE IF parsed.node.type = "StringLiteral" THEN parsed.node
    ELSE StringLiteral(newClassName)

\* the value of the className attribute pushed when there is none
FileUpdaterAppendedValueOf(parsed, newClassName) ==
    IF ~parsed.ok THEN StringLiteral(newClassName)
    ELSE IF parsed.node.type = "ConditionalExpression"
    THEN JSXExpressionContainer(parsed.node)
    ELSE StringLiteral(newClassName)

\* the attribute list after the visitor's mutation; k is classNameIndex
FileUpdaterAttributesAt(attributes, k, newClassName) ==
    IF k # 0
    THEN [attributes EXCEPT
            ![k].value = FileUpdaterReplacedValueOf(ParseExpression(newClassName), newClassName)]
    ELSE Append(attributes,
                JSXAttribute(JSXIdentifier("className"),
                    FileUpdaterAppendedValueOf(ParseExpression(newClassName), newClassName)))

\* one call of the JSXOpeningElement visitor on element k
FileUpdaterVisit(st, k, tagName, newClassName, elementIndex) ==
    IF ~(st.elements[k].name.type = "JSXIdentifier"
         /\ st.elements[k].name.name = tagName)
    THEN st
    ELSE IF elementIndex.defined /\ st.foundCount # elementIndex.value
    THEN [st EXCEPT !.foundCount = @ + 1]
    ELSE [foundCount |-> st.foundCount + 1,
          updated |-> TRUE,
          elements |-> [st.elements EXCEPT
                          ![k].attributes =
                              FileUpdaterAttributesAt(@, FileUpdaterClassNameIndex(@), newClassName)]]

RECURSIVE FileUpdaterTraverse(_, _, _, _, _)
FileUpdaterTraverse(st, k, tagName, newClassName, elementIndex) ==
    IF k > Len(st.elements) THEN st
    ELSE FileUpdaterTraverse(FileUpdaterVisit(st, k, tagName, newClassName, elementIndex),
                     k + 1, tagName, newClassName, elementIndex)

\* if (updated) return output.code; ... return sourceCode
FileUpdaterResult(st, sourceCode) ==
    [type |-> "return",
     code |-> IF st.updated THEN Generate(st.elements) ELSE sourceCode]

\* the try block, given the parse result; the catch rethrows
FileUpdaterAst(ast, sourceCode, tagName, newClassName, elementIndex) ==
    IF ~ast.ok THEN [type |-> "throw"]
    ELSE FileUpdaterResult(FileUpdaterTraverse([foundCount |-> 0, updated |-> FALSE,
                                elements |-> ast.elements],
                               1, tagName, newClassName, elementIndex),
                   sourceCode)

\* updateFileContent
updateFileContent(sourceCode, tagName, newClassName, elementIndex) ==
    FileUpdaterAst(Parse(sourceCode), sourceCode, tagName, newClassName, elementIndex)

----------------------------------------------------------------------------
(* Inputs: the initial source file and the request bodies *)

ClassName(valueText) == JSXAttribute(JSXIdentifier("className"), valueText)

IdAttr == JSXAttribute(JSXIdentifier("id"), TextString(<<DQ, "a", DQ>>))

\* <div id="a" {...p}>
DivPlain == [name |-> JSXIdentifier("div"), attributes |-> <<IdAttr, JSXSpreadAttribute>>]

\* <div className="a c" id="a">
DivLiteral ==
    [name |-> JSXIdentifier("div"),
     attributes |-> <<ClassName(TextString(<<DQ, "a", SP, "c", DQ>>)), IdAttr>>]

\* <div className={a ? 'c' : 'p'}>
DivConditional ==
    [name |-> JSXIdentifier("div"),
     attributes |-> <<ClassName(TextContainer(
         <<"a", SP, "?", SP, SQ, "c", SQ, SP, ":", SP, SQ, "p", SQ>>))>>]

\* <span className={pa}>
SpanExpression ==
    [name |-> JSXIdentifier("span"),
     attributes |-> <<ClassName(TextContainer(<<"p", "a">>))>>]

\* <UI.Box className="p">
MemberLiteral ==
    [name |-> JSXMemberExpression("UI.Box"),
     attributes |-> <<ClassName(TextString(<<DQ, "p", DQ>>))>>]

\* <div className="a&amp;c">
DivEntity ==
    [name |-> JSXIdentifier("div"),
     attributes |-> <<ClassName(TextString(<<DQ, "a", AMP, "a", "m", "p", SEMI, "c", DQ>>))>>]

\* <div className={a && 'c'}>
DivLogical ==
    [name |-> JSXIdentifier("div"),
     attributes |-> <<ClassName(TextContainer(
         <<"a", SP, AMP, AMP, SP, SQ, "c", SQ>>))>>]

ElementKinds == {DivPlain, DivLiteral, DivConditional, SpanExpression}

\* the element lists of at most n elements
RECURSIVE ElementLists(_)
ElementLists(n) ==
    IF n = 0 THEN {<< >>}
    ELSE LET shorter == ElementLists(n - 1)
         IN  shorter \cup {Append(l, e) : l \in shorter, e \in ElementKinds}

\* files with three elements of one tag, one with a character entity in a
\* literal, one with a logical expression, and one with a member-expression
\* tag
LongerLists ==
    { <<DivPlain, DivLiteral, DivConditional>>,
      <<DivLiteral, DivPlain, DivLiteral>>,
      <<DivConditional, DivPlain, DivPlain>>,
      <<DivEntity, DivLiteral>>,
      <<DivLogical, DivLiteral>>,
      <<MemberLiteral, DivLiteral, SpanExpression>> }

SourceTexts ==
    {[syntaxOk |-> TRUE, layout |-> "source", elements |-> l] :
        l \in ElementLists(MaxElements) \cup LongerLists}
    \cup {[syntaxOk |-> FALSE, layout |-> "source", elements |-> <<DivLiteral>>]}

TagNames == {"div", "span", "UI.Box"}

NewClassNames ==
    { <<"p", "a">>,                                                  \* pa
      <<"p", "a", SP, "c">>,                                         \* pa c
      <<SQ, "a", SP, "c", SQ>>,                                      \* 'a c'
      <<"a", SP, "?", SP, SQ, "c", SQ, SP, ":", SP, SQ, "p", SQ>>,   \* a ? 'c' : 'p'
      <<"a", AMP, AMP, "c", "?", "m", ":", "p">>,                    \* a&&c?m:p
      <<"a", DQ, "c">>,                                              \* a"c
      <<"a", BS, "c">>,                                              \* a\c
      <<"a", CAP, "c">> }                                            \* a U+2229 c

ElementIndexes == {Undefined} \cup {Ordinal(n) : n \in 0..MaxIndex}

----------------------------------------------------------------------------
(* The dev server (ast.ts 264-317) *)

NoCall ==
    [fn |-> "none", sourceCode |-> << >>, tagName |-> "", newClassName |-> << >>,
     elementIndex |-> Undefined, outcome |-> Null]

NoResponse == [status |-> 0, success |-> FALSE, classNameExpression |-> << >>]

\* ElementData | null
NoElement == [tagName |-> "", className |-> << >>]

\* the sidepanel's selection state when App mounts (App.tsx 52-66)
NothingSelected ==
    /\ elementData = NoElement
    /\ hoveredData = NoElement
    /\ editedClassName = << >>
    /\ hasUserEditedRef = FALSE
    /\ sourceClassNameExpression = << >>
    /\ isSelected = FALSE
    /\ elementIndexState = Undefined
    /\ reads = {}
    /\ saves = {}
    /\ issued = 0
    /\ lastGesture = "none"

\* the sidepanel's state when App mounts with nothing in storage
PanelMounted ==
    /\ NothingSelected
    /\ githubChanges = << >>

\* the locals of handleCreatePR when it is not running
NoPR ==
    [pc |-> "idle", outcome |-> "none", selectedChanges |-> << >>,
     changesByFile |-> << >>, fileChanges |-> << >>, cursor |-> 0]

\* a path that is on no branch
NoFile == [type |-> "missing"]

\* no pull request is being created
NoPullRequest ==
    /\ showPRModal = FALSE
    /\ prTitle = << >>
    /\ isCreatingPR = FALSE
    /\ pr = NoPR
    /\ baseFiles = << >>
    /\ branchFiles = << >>
    /\ log = << >>
    /\ started = 0

\* selectedElement = null
NoTarget == 0

\* the document: the two divs of the source file and a link that navigates
Page ==
    << [tagName |-> "div", className |-> <<"a", SP, "c">>, href |-> FALSE],
       [tagName |-> "a", className |-> << >>, href |-> TRUE],
       [tagName |-> "div", className |-> <<"c">>, href |-> FALSE] >>

\* the className of each element of the document as it was loaded
LoadedClasses == [k \in 1..Len(Page) |-> Page[k].className]

\* the content script when it has just been injected (index.ts 3-6), with no
\* message under way
ContentLoaded ==
    /\ selectionModeEnabled = FALSE
    /\ selectedElement = NoTarget
    /\ hoveredElement = NoTarget
    /\ pageClasses = LoadedClasses
    /\ toBackground = {}
    /\ toPanel = {}
    /\ sent = 0
    /\ styles = EmptyBag

\* no sidepanel is open
NoPanel ==
    /\ PanelMounted
    /\ devServerUrl = ""
    /\ isConnected = FALSE
    /\ isGithubConnected = FALSE
    /\ githubRepo = << >>
    /\ showDevServerModal = FALSE
    /\ showRepoSelection = FALSE
    /\ pending = EmptyBag
    /\ NoPullRequest
    /\ ContentLoaded

Init ==
    /\ sourceFile \in SourceTexts
    /\ call = NoCall
    /\ response = NoResponse
    /\ handled = 0
    /\ inflight = {}
    /\ received = << >>
    /\ startFile = sourceFile
    /\ NoPanel

\* mutant: a handler works on the content the file had at start-up
ReadFileAtStart == startFile

\* fs.readFileSync(sourceFile, 'utf8') inside a handler
ReadFileSync == sourceFile

\* classNameExpression || ''
OrEmpty(x) == IF x.type = "string" THEN x.value ELSE << >>

\* the response of the read handler and the record of its call
GetClassNameExpressionRespond(content, tagName, elementIndex, classNameExpression) ==
    /\ call' = [fn |-> "getClassNameExpression", sourceCode |-> content,
                tagName |-> tagName, newClassName |-> << >>,
                elementIndex |-> elementIndex, outcome |-> classNameExpression]
    /\ response' = [status |-> 200, success |-> TRUE,
                    classNameExpression |-> OrEmpty(classNameExpression)]

\* mutant: the read handler prints the parsed file back to disk
GetClassNameExpressionHandlerWritesBack(tagName, elementIndex) ==
    /\ GetClassNameExpressionRespond(ReadFileSync, tagName, elementIndex,
            getClassNameExpression(ReadFileSync, tagName, elementIndex))
    /\ handled' = handled + 1
    /\ sourceFile' = IF Parse(sourceFile).ok
                     THEN Generate(Parse(sourceFile).elements) ELSE sourceFile

\* app.post('/api/get-classname-expression')
GetClassNameExpressionHandler(tagName, elementIndex) ==
    /\ GetClassNameExpressionRespond(ReadFileSync, tagName, elementIndex,
            getClassNameExpression(ReadFileSync, tagName, elementIndex))
    /\ handled' = handled + 1
    /\ UNCHANGED sourceFile

\* mutant: a thrown error is answered like a success
UpdateClassesRespondAlwaysOk(content, tagName, newClassName, elementIndex, result) ==
    /\ call' = [fn |-> "updateClassNameWithAST", sourceCode |-> content,
                tagName |-> tagName, newClassName |-> newClassName,
                elementIndex |-> elementIndex, outcome |-> result]
    /\ response' = [status |-> 200, success |-> TRUE, classNameExpression |-> << >>]
    /\ sourceFile' = IF result.type = "throw" THEN sourceFile ELSE result.code

\* the write-back and response of the update handler, result being the
\* outcome of updateClassNameWithAST
UpdateClassesRespond(content, tagName, newClassName, elementIndex, result) ==
    /\ call' = [fn |-> "updateClassNameWithAST", sourceCode |-> content,
                tagName |-> tagName, newClassName |-> newClassName,
                elementIndex |-> elementIndex, outcome |-> result]
    /\ IF result.type = "throw"
       THEN /\ response' = [status |-> 500, success |-> FALSE,
                            classNameExpression |-> << >>]
            /\ UNCHANGED sourceFile
       ELSE /\ sourceFile' = result.code
            /\ response' = [status |-> 200, success |-> TRUE,
                            classNameExpression |-> << >>]

\* app.post('/api/update-classes')
UpdateClassesHandler(tagName, newClassName, elementIndex) ==
    /\ UpdateClassesRespond(ReadFileSync, tagName, newClassName, elementIndex,
            updateClassNameWithAST(ReadFileSync, tagName, newClassName, elementIndex))
    /\ handled' = handled + 1

\* a read request reaches the server and is handled
ReadRequest(tagName, elementIndex) ==
    /\ handled < MaxRequests
    /\ GetClassNameExpressionHandler(tagName, elementIndex)
    /\ UNCHANGED <<queueVars, panelVars, prVars, contentVars>>

\* an update request reaches the server and is handled
UpdateRequest(tagName, newClassName, elementIndex) ==
    /\ handled < MaxRequests
    /\ UpdateClassesHandler(tagName, newClassName, elementIndex)
    /\ UNCHANGED <<queueVars, panelVars, prVars, contentVars>>

Next ==
    \/ \E tagName \in TagNames, elementIndex \in ElementIndexes :
          ReadRequest(tagName, elementIndex)
    \/ \E tagName \in TagNames, newClassName \in NewClassNames,
          elementIndex \in ElementIndexes :
          UpdateRequest(tagName, newClassName, elementIndex)

Spec == Init /\ [][Next]_vars

----------------------------------------------------------------------------
(* Two calls of updateClassNameWithAST, each on the text the other          *)
(* returned, in both orders.                                               *)

\* updateClassNameWithAST on the text a previous call returned; a call that
\* threw returned no text
Then(result, u) ==
    IF result.type = "throw" THEN result
    ELSE updateClassNameWithAST(result.code, u.tagName, u.newClassName, u.elementIndex)

\* the update u applied to the source text
Once(sourceCode, u) ==
    updateClassNameWithAST(sourceCode, u.tagName, u.newClassName, u.elementIndex)

\* the updates first and second are applied to the file in both orders
ApplyBoth(first, second) ==
    /\ handled < MaxRequests
    /\ call' = [fn |-> "updateClassNameWithAST twice", sourceCode |-> ReadFileSync,
                first |-> first, second |-> second,
                firstSecond |-> Then(Once(ReadFileSync, first), second),
                secondFirst |-> Then(Once(ReadFileSync, second), first)]
    /\ handled' = handled + 1
    /\ UNCHANGED <<sourceFile, response>>
    /\ UNCHANGED <<queueVars, panelVars, prVars, contentVars>>

\* the updates of the div and span elements by ordinal
Updates ==
    {[tagName |-> t, newClassName |-> v, elementIndex |-> Ordinal(n)] :
        t \in {"div", "span"}, v \in NewClassNames, n \in 0..MaxIndex}

CommuteNext ==
    \E first \in Updates, second \in Updates : ApplyBoth(first, second)

CommuteSpec == Init /\ [][CommuteNext]_vars

----------------------------------------------------------------------------
(* The dev server with several update requests pending.  express.json()    *)
(* (the 'data' and 'end' events in the Vite plugin) reads a request's body *)
(* asynchronously, so the handlers of pending requests run in any order;   *)
(* each handler runs to completion, its file calls being synchronous.      *)

\* the files served in this specification
ServerFiles ==
    {[syntaxOk |-> TRUE, layout |-> "source", elements |-> l] :
        l \in { <<DivPlain, DivLiteral>>,
                <<DivLiteral, DivConditional, DivPlain>> }}

\* the class values the pending requests carry
ServerClassNames ==
    { <<"p", "a", SP, "c">>,
      <<"a", SP, "?", SP, SQ, "c", SQ, SP, ":", SP, SQ, "p", SQ>> }

ServerInit ==
    /\ sourceFile \in ServerFiles
    /\ call = NoCall
    /\ response = NoResponse
    /\ handled = 0
    /\ inflight = {}
    /\ received = << >>
    /\ startFile = sourceFile
    /\ NoPanel

\* the body of an update request reaches the server
ReceiveUpdateClasses(tagName, newClassName, elementIndex) ==
    /\ Len(received) < MaxInFlight
    /\ inflight' = inflight \cup {Len(received) + 1}
    /\ received' = Append(received, [tagName |-> tagName,
                                      newClassName |-> newClassName,
                                      elementIndex |-> elementIndex])
    /\ UNCHANGED <<serverVars, startFile, panelVars, prVars, contentVars>>

\* the handler of pending request id runs
ServeUpdateClasses(id) ==
    /\ id \in inflight
    /\ UpdateClassesHandler(received[id].tagName, received[id].newClassName,
                            received[id].elementIndex)
    /\ inflight' = inflight \ {id}
    /\ UNCHANGED <<received, startFile, panelVars, prVars, contentVars>>

ServerNext ==
    \/ \E newClassName \in ServerClassNames, n \in 0..MaxIndex :
          ReceiveUpdateClasses("div", newClassName, Ordinal(n))
    \/ \E id \in 1..MaxInFlight : ServeUpdateClasses(id)

ServerSpec == ServerInit /\ [][ServerNext]_vars

----------------------------------------------------------------------------
(* The sidepanel (App.tsx) talking to the seam server.  A fetch is a       *)
(* record that goes from "sent" (the request is on its way) to "answered"  *)
(* (the server has handled it, the response is on its way back) to "done"  *)
(* (the continuation after the await has run).  The other awaits of the    *)
(* panel (the storage read of the mount effect, the health check, the      *)
(* repository access check, OAuth) are the members of the bag pending: a  *)
(* member is a call that has been made and whose continuation has not run *)
(* yet, as many times as there are such calls.                             *)
(* Hover data, the element path and the DOM preview are left out, so the   *)
(* panel shows its edit view while an element is selected and its default  *)
(* view otherwise.                                                         *)

\* the file the server of the panel runs edits
PanelFiles ==
    {[syntaxOk |-> TRUE, layout |-> "source", elements |-> <<DivLiteral, DivConditional>>]}

\* path.relative(projectRoot, sourceFile), here apps/A
RepoRelativePath == <<"a", "p", "p", "s", "/", "A">>

\* 'src/App.tsx', here src/A
DefaultFilePath == <<"s", "r", "c", "/", "A">>

\* the ELEMENT_SELECTED messages that reach the panel: from the content
\* script with the element's index, or relayed by the background script
\* without it, for the divs of the page as it was loaded
SelectionMessages ==
    { [data |-> [tagName |-> "div", className |-> <<"a", SP, "c">>],
       elementIndex |-> Ordinal(0)],
      [data |-> [tagName |-> "div", className |-> <<"c">>],
       elementIndex |-> Ordinal(1)],
      [data |-> [tagName |-> "div", className |-> <<"a", SP, "c">>],
       elementIndex |-> Undefined] }

\* what the user types into the class textarea
TextareaValues == { <<"p", "a">>, <<"p", "a", SP, "c">> }

\* the URL of the dev server
ServerUrl == "http://localhost:5175"

\* repo.full_name of the repository the user works on, here o/r
RepoFullName == <<"o", "/", "r">>

\* a change an earlier session of the panel recorded
StoredChange ==
    [id |-> 0, filePath |-> RepoRelativePath, tagName |-> "div",
     oldClassName |-> <<"a", SP, "c">>, newClassName |-> <<"p", "a">>,
     elementIndex |-> Ordinal(0), selected |-> TRUE]

\* result.githubChanges: absent, or the list an earlier session saved
StoredChangeLists == {Undefined, [defined |-> TRUE, value |-> <<StoredChange>>]}

\* what chrome.storage.local holds when the panel mounts: nothing, or the
\* URL, the repository with its token and the changes an earlier session
\* saved
StorageContents ==
    {[devServerUrl |-> u, githubRepo |-> r, githubToken |-> t, githubChanges |-> c] :
        u \in {"", ServerUrl}, r \in {<< >>, RepoFullName}, t \in {"", "t"},
        c \in StoredChangeLists}

\* what the user types into the Dev Server URL input
UrlValues == {"", ServerUrl}

\* the number of "/" in s
SlashCount(s) == Cardinality({i \in 1..Len(s) : s[i] = "/"})

\* parseRepo: /^([^/]+)\/([^/]+)$/
ParseRepo(repoString) ==
    IF SlashCount(repoString) = 1 /\ repoString[1] # "/"
           /\ repoString[Len(repoString)] # "/"
    THEN [type |-> "repo"] ELSE Null

\* the state of App after its first render: the useState initial values,
\* the storage callback of the mount effect still to run
PanelInit ==
    /\ sourceFile \in PanelFiles
    /\ call = NoCall
    /\ response = NoResponse
    /\ handled = 0
    /\ inflight = {}
    /\ received = << >>
    /\ startFile = sourceFile
    /\ PanelMounted
    /\ devServerUrl = ""
    /\ isConnected = FALSE
    /\ isGithubConnected = FALSE
    /\ githubRepo = << >>
    /\ showDevServerModal = FALSE
    /\ showRepoSelection = FALSE
    /\ pending = Started(EmptyBag, "storage")
    /\ NoPullRequest
    /\ ContentLoaded

\* fetchSourceClassNameExpression up to its await
FetchSourceClassNameExpression(tagName, index) ==
    IF devServerUrl = ""
    THEN UNCHANGED <<reads, issued>>
    ELSE /\ reads' = reads \cup
                {[id |-> issued + 1, tagName |-> tagName, elementIndex |-> index,
                  stage |-> "sent", response |-> NoResponse, set |-> FALSE]}
         /\ issued' = issued + 1

\* messageHandler, ELEMENT_SELECTED
ElementSelected(message) ==
    /\ issued < MaxFetches
    /\ elementData' = message.data
    /\ hasUserEditedRef' = FALSE
    /\ editedClassName' = message.data.className
    /\ isSelected' = TRUE
    /\ elementIndexState' = IF message.elementIndex.defined
                            THEN message.elementIndex ELSE elementIndexState
    /\ FetchSourceClassNameExpression(message.data.tagName, message.elementIndex)
    /\ hoveredData' = NoElement
    /\ lastGesture' = "selected"
    /\ UNCHANGED <<sourceClassNameExpression, devServerUrl, isConnected,
                   isGithubConnected, githubRepo, githubChanges, saves>>
    /\ UNCHANGED <<serverVars, queueVars, prVars, setupVars>>

\* messageHandler, ELEMENT_DESELECTED
ElementDeselected ==
    /\ isSelected' = FALSE
    /\ elementData' = NoElement
    /\ editedClassName' = << >>
    /\ sourceClassNameExpression' = << >>
    /\ elementIndexState' = Undefined
    /\ lastGesture' = "deselected"
    /\ UNCHANGED <<hoveredData, hasUserEditedRef, devServerUrl, isConnected,
                   isGithubConnected, githubRepo, githubChanges, reads, saves, issued>>
    /\ UNCHANGED <<serverVars, queueVars, prVars, setupVars>>

\* messageHandler, ELEMENT_HOVERED
ElementHovered(message) ==
    /\ hoveredData' = IF ~isSelected THEN message.data ELSE hoveredData
    /\ UNCHANGED editVarsButHover
    /\ UNCHANGED <<devServerUrl, isConnected, isGithubConnected, githubRepo,
                   githubChanges>>
    /\ UNCHANGED <<serverVars, queueVars, prVars, setupVars>>

\* the textarea's onChange; the textarea is rendered for a selected element
TextareaChange(value) ==
    /\ isSelected
    /\ elementData # NoElement
    /\ value # editedClassName
    /\ hasUserEditedRef' = TRUE
    /\ editedClassName' = value
    /\ lastGesture' = "edited"
    /\ UNCHANGED <<elementData, sourceClassNameExpression, isSelected,
                   elementIndexState, devServerUrl, isConnected, isGithubConnected,
                   githubRepo, githubChanges, reads, saves, issued>>
    /\ UNCHANGED <<serverVars, queueVars, prVars, setupVars, hoveredData, contentVars>>

\* the UPDATE_STYLES message of handleSave, and the APPLY_STYLES message the
\* background script makes of it
StylesMessage(type, className) == [type |-> type, className |-> className]

\* handleSave up to its await; the Apply button is rendered for a selected
\* element
HandleSave ==
    /\ isSelected
    /\ elementData # NoElement
    /\ BagCardinality(styles) < MaxStyles
    /\ (isConnected /\ devServerUrl # "") => issued < MaxFetches
    /\ styles' = Started(styles, StylesMessage("UPDATE_STYLES", editedClassName))
    /\ elementData' = [elementData EXCEPT !.className = editedClassName]
    /\ sourceClassNameExpression' = editedClassName
    /\ hasUserEditedRef' = TRUE
    /\ IF isConnected /\ devServerUrl # ""
       THEN /\ saves' = saves \cup
                   {[id |-> issued + 1, tagName |-> elementData.tagName,
                     oldClassName |-> elementData.className,
                     newClassName |-> editedClassName,
                     elementIndex |-> elementIndexState,
                     tracked |-> isGithubConnected /\ githubRepo # << >>,
                     stage |-> "sent", response |-> NoResponse,
                     file |-> << >>]}
            /\ issued' = issued + 1
       ELSE UNCHANGED <<saves, issued>>
    /\ lastGesture' = "applied"
    /\ UNCHANGED <<editedClassName, isSelected, elementIndexState, devServerUrl,
                   isConnected, isGithubConnected, githubRepo, githubChanges, reads>>
    /\ UNCHANGED <<serverVars, queueVars, prVars, setupVars, hoveredData, scriptVars>>

\* the server handles a read request of the panel
ServeRead(f) ==
    /\ f.stage = "sent"
    /\ GetClassNameExpressionHandler(f.tagName, f.elementIndex)
    /\ reads' = (reads \ {f}) \cup
                    {[f EXCEPT !.stage = "answered", !.response = response']}
    /\ UNCHANGED <<elementData, editedClassName, hasUserEditedRef,
                   sourceClassNameExpression, isSelected, elementIndexState,
                   devServerUrl, isConnected, isGithubConnected, githubRepo,
                   githubChanges, saves, issued, lastGesture>>
    /\ UNCHANGED <<queueVars, prVars, setupVars, hoveredData, contentVars>>

\* the server handles an update request of the panel
ServeSave(f) ==
    /\ f.stage = "sent"
    /\ UpdateClassesHandler(f.tagName, f.newClassName, f.elementIndex)
    /\ saves' = (saves \ {f}) \cup
                    {[f EXCEPT !.stage = "answered", !.response = response',
                               !.file = IF response'.success
                                        THEN RepoRelativePath ELSE << >>]}
    /\ UNCHANGED <<elementData, editedClassName, hasUserEditedRef,
                   sourceClassNameExpression, isSelected, elementIndexState,
                   devServerUrl, isConnected, isGithubConnected, githubRepo,
                   githubChanges, reads, issued, lastGesture>>
    /\ UNCHANGED <<queueVars, prVars, setupVars, hoveredData, contentVars>>

\* response.ok
ResponseOk(r) == r.status >= 200 /\ r.status <= 299

\* mutant: the response is applied whether or not the user has edited
MayOverwriteAlways(edited) == TRUE

\* if (!hasUserEditedRef.current)
MayOverwrite(edited) == ~edited

\* whether the continuation of fetchSourceClassNameExpression calls
\* setSourceClassNameExpression
SetsSourceClassNameExpression(r) ==
    /\ ResponseOk(r)
    /\ r.success
    /\ r.classNameExpression # << >>
    /\ MayOverwrite(hasUserEditedRef)

\* fetchSourceClassNameExpression after its await
ReadResponse(f) ==
    /\ f.stage = "answered"
    /\ sourceClassNameExpression' =
           IF SetsSourceClassNameExpression(f.response)
           THEN f.response.classNameExpression ELSE sourceClassNameExpression
    /\ reads' = (reads \ {f}) \cup
                    {[f EXCEPT !.stage = "done",
                               !.set = SetsSourceClassNameExpression(f.response)]}
    /\ UNCHANGED <<elementData, editedClassName, hasUserEditedRef, isSelected,
                   elementIndexState, devServerUrl, isConnected, isGithubConnected,
                   githubRepo, githubChanges, saves, issued, lastGesture>>
    /\ UNCHANGED <<serverVars, queueVars, prVars, setupVars, hoveredData, contentVars>>

\* result.file || 'src/App.tsx'
FilePathOf(f) == IF f.file # << >> THEN f.file ELSE DefaultFilePath

\* the ChangeItem handleSave builds
ChangeItem(f) ==
    [id |-> f.id, filePath |-> FilePathOf(f), tagName |-> f.tagName,
     oldClassName |-> f.oldClassName, newClassName |-> f.newClassName,
     elementIndex |-> f.elementIndex, selected |-> TRUE]

\* handleSave after its await
SaveResponse(f) ==
    /\ f.stage = "answered"
    /\ githubChanges' = IF ResponseOk(f.response) /\ f.tracked
                        THEN Append(githubChanges, ChangeItem(f))
                        ELSE githubChanges
    /\ saves' = (saves \ {f}) \cup {[f EXCEPT !.stage = "done"]}
    /\ UNCHANGED <<elementData, editedClassName, hasUserEditedRef,
                   sourceClassNameExpression, isSelected, elementIndexState,
                   devServerUrl, isConnected, isGithubConnected, githubRepo,
                   reads, issued, lastGesture>>
    /\ UNCHANGED <<serverVars, queueVars, prVars, setupVars, hoveredData, contentVars>>

\* a fetch rejects (the server cannot be reached): both callers catch the
\* error and change no state
ReadFails(f) ==
    /\ f.stage = "sent"
    /\ reads' = (reads \ {f}) \cup {[f EXCEPT !.stage = "done"]}
    /\ UNCHANGED <<elementData, editedClassName, hasUserEditedRef,
                   sourceClassNameExpression, isSelected, elementIndexState,
                   devServerUrl, isConnected, isGithubConnected, githubRepo,
                   githubChanges, saves, issued, lastGesture>>
    /\ UNCHANGED <<serverVars, queueVars, prVars, setupVars, hoveredData, contentVars>>

SaveFails(f) ==
    /\ f.stage = "sent"
    /\ saves' = (saves \ {f}) \cup {[f EXCEPT !.stage = "done"]}
    /\ UNCHANGED <<elementData, editedClassName, hasUserEditedRef,
                   sourceClassNameExpression, isSelected, elementIndexState,
                   devServerUrl, isConnected, isGithubConnected, githubRepo,
                   githubChanges, reads, issued, lastGesture>>
    /\ UNCHANGED <<serverVars, queueVars, prVars, setupVars, hoveredData, contentVars>>

\* the edit view is rendered (App.tsx 488)
EditView == isSelected /\ elementData # NoElement

\* the hover view is rendered (App.tsx 646)
HoverView == ~EditView /\ hoveredData # NoElement /\ ~isSelected

\* the default view is rendered (App.tsx 673)
DefaultView == ~EditView /\ ~HoverView

\* result.githubRepo && result.githubToken
HasRepoAndToken(result) == result.githubRepo # << >> /\ result.githubToken # ""

\* the steps the storage callback of the mount effect starts: the health
\* check of the saved URL, the validation of the saved repository
MountChecks(result) ==
    (IF result.devServerUrl # "" THEN {"health"} ELSE {})
        \cup (IF HasRepoAndToken(result) /\ ParseRepo(result.githubRepo) # Null
              THEN {"access"} ELSE {})

\* the callback of chrome.storage.local.get in the mount effect
StorageLoaded(result) ==
    /\ Outstanding("storage")
    /\ devServerUrl' = IF result.devServerUrl # "" THEN result.devServerUrl
                       ELSE devServerUrl
    /\ githubRepo' = IF HasRepoAndToken(result) THEN result.githubRepo
                     ELSE githubRepo
    /\ githubChanges' = IF result.githubChanges.defined
                        THEN result.githubChanges.value ELSE githubChanges
    /\ pending' = Settled(pending, "storage") (+) SetToBag(MountChecks(result))
    /\ UNCHANGED <<isConnected, isGithubConnected, showDevServerModal,
                   showRepoSelection>>
    /\ UNCHANGED <<editVars, serverVars, queueVars, prVars, contentVars>>

\* the health check of the mount effect settles
HealthReturns(ok) ==
    /\ Outstanding("health")
    /\ pending' = Settled(pending, "health")
    /\ isConnected' = (ok \/ isConnected)
    /\ UNCHANGED <<devServerUrl, isGithubConnected, githubRepo, githubChanges,
                   showDevServerModal, showRepoSelection>>
    /\ UNCHANGED <<editVars, serverVars, queueVars, prVars, contentVars>>

\* validateRepoAccess of the mount effect settles
AccessReturns(hasAccess) ==
    /\ Outstanding("access")
    /\ pending' = Settled(pending, "access")
    /\ isGithubConnected' = (hasAccess \/ isGithubConnected)
    /\ UNCHANGED <<devServerUrl, isConnected, githubRepo, githubChanges,
                   showDevServerModal, showRepoSelection>>
    /\ UNCHANGED <<editVars, serverVars, queueVars, prVars, contentVars>>

\* "Connect to a dev server URL", rendered while not connected
OpenDevServerModal ==
    /\ DefaultView
    /\ ~isConnected
    /\ ~showDevServerModal
    /\ showDevServerModal' = TRUE
    /\ UNCHANGED <<devServerUrl, isConnected, isGithubConnected, githubRepo,
                   githubChanges, showRepoSelection, pending>>
    /\ UNCHANGED <<editVars, serverVars, queueVars, prVars, contentVars>>

\* the close button of the dev server modal
CloseDevServerModal ==
    /\ DefaultView
    /\ showDevServerModal
    /\ showDevServerModal' = FALSE
    /\ UNCHANGED <<devServerUrl, isConnected, isGithubConnected, githubRepo,
                   githubChanges, showRepoSelection, pending>>
    /\ UNCHANGED <<editVars, serverVars, queueVars, prVars, contentVars>>

\* onChange of the Dev Server URL input
DevServerUrlChange(value) ==
    /\ DefaultView
    /\ showDevServerModal
    /\ value # devServerUrl
    /\ devServerUrl' = value
    /\ UNCHANGED <<isConnected, isGithubConnected, githubRepo, githubChanges,
                   showDevServerModal, showRepoSelection, pending>>
    /\ UNCHANGED <<editVars, serverVars, queueVars, prVars, contentVars>>

\* handleConnect up to its await
HandleConnect ==
    /\ DefaultView
    /\ showDevServerModal
    /\ CopiesIn("connect", pending) < MaxCalls
    /\ pending' = IF devServerUrl = "" THEN pending ELSE Started(pending, "connect")
    /\ UNCHANGED <<devServerUrl, isConnected, isGithubConnected, githubRepo,
                   githubChanges, showDevServerModal, showRepoSelection>>
    /\ UNCHANGED <<editVars, serverVars, queueVars, prVars, contentVars>>

\* handleConnect after its await
ConnectReturns(ok) ==
    /\ Outstanding("connect")
    /\ pending' = Settled(pending, "connect")
    /\ isConnected' = (ok \/ isConnected)
    /\ showDevServerModal' = (~ok /\ showDevServerModal)
    /\ UNCHANGED <<devServerUrl, isGithubConnected, githubRepo, githubChanges,
                   showRepoSelection>>
    /\ UNCHANGED <<editVars, serverVars, queueVars, prVars, contentVars>>

\* isConnectingGithub
IsConnectingGithub == Outstanding("oauth")

\* handleGithubConnect up to its first await; the button is rendered while
\* not connected and disabled while connecting
HandleGithubConnect ==
    /\ DefaultView
    /\ ~isGithubConnected
    /\ ~IsConnectingGithub
    /\ pending' = Started(pending, "oauth")
    /\ UNCHANGED <<devServerUrl, isConnected, isGithubConnected, githubRepo,
                   githubChanges, showDevServerModal, showRepoSelection>>
    /\ UNCHANGED <<editVars, serverVars, queueVars, prVars, contentVars>>

\* handleGithubConnect after its awaits
GithubConnectReturns(ok) ==
    /\ Outstanding("oauth")
    /\ pending' = Settled(pending, "oauth")
    /\ showRepoSelection' = (ok \/ showRepoSelection)
    /\ UNCHANGED <<devServerUrl, isConnected, isGithubConnected, githubRepo,
                   githubChanges, showDevServerModal>>
    /\ UNCHANGED <<editVars, serverVars, queueVars, prVars, contentVars>>

\* the close button of the repository selection
CloseRepoSelection ==
    /\ DefaultView
    /\ showRepoSelection
    /\ showRepoSelection' = FALSE
    /\ UNCHANGED <<devServerUrl, isConnected, isGithubConnected, githubRepo,
                   githubChanges, showDevServerModal, pending>>
    /\ UNCHANGED <<editVars, serverVars, queueVars, prVars, contentVars>>

\* handleRepoSelect up to its await
HandleRepoSelect ==
    /\ DefaultView
    /\ showRepoSelection
    /\ CopiesIn("select", pending) < MaxCalls
    /\ pending' = Started(pending, "select")
    /\ UNCHANGED <<devServerUrl, isConnected, isGithubConnected, githubRepo,
                   githubChanges, showDevServerModal, showRepoSelection>>
    /\ UNCHANGED <<editVars, serverVars, queueVars, prVars, contentVars>>

\* handleRepoSelect after its await
RepoSelectReturns(hasAccess) ==
    /\ Outstanding("select")
    /\ pending' = Settled(pending, "select")
    /\ githubRepo' = IF hasAccess THEN RepoFullName ELSE githubRepo
    /\ isGithubConnected' = (hasAccess \/ isGithubConnected)
    /\ showRepoSelection' = (~hasAccess /\ showRepoSelection)
    /\ UNCHANGED <<devServerUrl, isConnected, githubChanges, showDevServerModal>>
    /\ UNCHANGED <<editVars, serverVars, queueVars, prVars, contentVars>>

\* the Disconnect button of the GitHub connection, rendered in the default
\* view while connected
GithubDisconnect ==
    /\ DefaultView
    /\ isGithubConnected
    /\ isGithubConnected' = FALSE
    /\ githubRepo' = << >>
    /\ UNCHANGED <<devServerUrl, isConnected, githubChanges, showDevServerModal,
                   showRepoSelection, pending>>
    /\ UNCHANGED <<editVars, serverVars, queueVars, prVars, contentVars>>

\* the sidepanel from its mount on: the mount effect, selection, editing,
\* saving, and the GitHub Disconnect button
PanelNext ==
    \/ \E message \in SelectionMessages :
          ElementSelected(message) /\ UNCHANGED contentVars
    \/ ElementDeselected /\ UNCHANGED contentVars
    \/ \E value \in TextareaValues : TextareaChange(value)
    \/ HandleSave
    \/ \E f \in reads : ServeRead(f)
    \/ \E f \in saves : ServeSave(f)
    \/ \E f \in reads : ReadResponse(f)
    \/ \E f \in saves : SaveResponse(f)
    \/ \E f \in reads : ReadFails(f)
    \/ \E f \in saves : SaveFails(f)
    \/ \E result \in StorageContents : StorageLoaded(result)
    \/ \E ok \in BOOLEAN : HealthReturns(ok)
    \/ \E hasAccess \in BOOLEAN : AccessReturns(hasAccess)
    \/ GithubDisconnect

PanelSpec == PanelInit /\ [][PanelNext]_vars

\* storage of a user who never connected a repository
StorageWithoutRepo ==
    {result \in StorageContents :
        /\ result.githubRepo = << >>
        /\ result.githubToken = ""
        /\ ~result.githubChanges.defined}

\* the selection messages as the content script sends them
IndexedMessages == {message \in SelectionMessages : message.elementIndex.defined}

\* the sidepanel of a user who never connected a repository: the mount
\* effect, selection, editing and saving
EditNext ==
    \/ \E message \in IndexedMessages :
          ElementSelected(message) /\ UNCHANGED contentVars
    \/ ElementDeselected /\ UNCHANGED contentVars
    \/ \E value \in TextareaValues : TextareaChange(value)
    \/ HandleSave
    \/ \E f \in reads : ServeRead(f)
    \/ \E f \in saves : ServeSave(f)
    \/ \E f \in reads : ReadResponse(f)
    \/ \E f \in saves : SaveResponse(f)
    \/ \E f \in reads : ReadFails(f)
    \/ \E f \in saves : SaveFails(f)
    \/ \E result \in StorageWithoutRepo : StorageLoaded(result)
    \/ \E ok \in BOOLEAN : HealthReturns(ok)

EditSpec == PanelInit /\ [][EditNext]_vars

\* storage that holds no recorded changes
StorageWithoutChanges ==
    {result \in StorageContents : ~result.githubChanges.defined}

\* the connections of the sidepanel: the mount effect, the dev server
\* modal, the GitHub connection, and the selection and hover messages that
\* switch the view
ConnectNext ==
    \/ \E message \in IndexedMessages :
          ElementSelected(message) /\ UNCHANGED contentVars
    \/ ElementDeselected /\ UNCHANGED contentVars
    \/ \E message \in IndexedMessages :
          ElementHovered(message) /\ UNCHANGED contentVars
    \/ \E result \in StorageWithoutChanges : StorageLoaded(result)
    \/ \E ok \in BOOLEAN : HealthReturns(ok)
    \/ \E hasAccess \in BOOLEAN : AccessReturns(hasAccess)
    \/ OpenDevServerModal
    \/ CloseDevServerModal
    \/ \E value \in UrlValues : DevServerUrlChange(value)
    \/ HandleConnect
    \/ \E ok \in BOOLEAN : ConnectReturns(ok)
    \/ HandleGithubConnect
    \/ \E ok \in BOOLEAN : GithubConnectReturns(ok)
    \/ CloseRepoSelection
    \/ HandleRepoSelect
    \/ \E hasAccess \in BOOLEAN : RepoSelectReturns(hasAccess)
    \/ GithubDisconnect

ConnectSpec == PanelInit /\ [][ConnectNext]_vars

----------------------------------------------------------------------------
(* The content script (content/index.ts), the background script that      *)
(* relays its messages (part_001) and the sidepanel that receives them.    *)
(* A message the content script sends with chrome.runtime.sendMessage      *)
(* reaches the listeners of the background script and of the sidepanel;    *)
(* what the background script sends reaches the sidepanel.  Messages under *)
(* way are delivered in any order.  An element of the page is named by its *)
(* position in the document.                                               *)

\* getElementIndex: the position of the element among the elements of its tag
getElementIndex(target) ==
    Cardinality({j \in 1..(target - 1) : Page[j].tagName = Page[target].tagName})

\* extractStyles
extractStyles(target) ==
    [tagName |-> Page[target].tagName, className |-> pageClasses[target]]

\* the ELEMENT_SELECTED message of the click listener; by tells the
\* messages of the click listener from those of the other listeners
SelectedMessage(id, target) ==
    [id |-> id, type |-> "ELEMENT_SELECTED", data |-> extractStyles(target),
     elementIndex |-> Ordinal(getElementIndex(target)), relayed |-> FALSE,
     by |-> "click"]

\* the ELEMENT_DESELECTED message
DeselectedMessage(id, by) ==
    [id |-> id, type |-> "ELEMENT_DESELECTED", data |-> NoElement,
     elementIndex |-> Undefined, relayed |-> FALSE, by |-> by]

\* the HOVER_ELEMENT message of the mouseover listener
HoverMessage(id, target) ==
    [id |-> id, type |-> "HOVER_ELEMENT", data |-> extractStyles(target),
     elementIndex |-> Undefined, relayed |-> FALSE, by |-> "mouseover"]

\* chrome.runtime.sendMessage in the content script
SendMessage(m) ==
    /\ toBackground' = toBackground \cup {m}
    /\ toPanel' = toPanel \cup {m}
    /\ sent' = sent + 1

\* the mouseover listener
MouseOver(target) ==
    /\ sent < MaxMessages
    /\ hoveredElement' = target
    /\ SendMessage(HoverMessage(sent + 1, target))
    /\ UNCHANGED <<selectionModeEnabled, selectedElement, pageClasses, styles>>
    /\ UNCHANGED <<serverVars, queueVars, panelVars, prVars>>

\* mutant: the click listener does not look at the selection mode
ClickIgnoredNever(enabled) == FALSE

\* if (!selectionModeEnabled) return
ClickIgnored(enabled) == ~enabled

\* the click listener
Click(target) ==
    /\ sent < MaxMessages
    /\ IF ClickIgnored(selectionModeEnabled) \/ Page[target].href
       THEN UNCHANGED <<selectionModeEnabled, selectedElement, toBackground,
                        toPanel, sent>>
       ELSE IF selectedElement = target
       THEN /\ selectedElement' = NoTarget
            /\ SendMessage(DeselectedMessage(sent + 1, "click"))
            /\ UNCHANGED selectionModeEnabled
       ELSE /\ selectedElement' = target
            /\ SendMessage(SelectedMessage(sent + 1, target))
            /\ UNCHANGED selectionModeEnabled
    /\ UNCHANGED <<hoveredElement, pageClasses, styles>>
    /\ UNCHANGED <<serverVars, queueVars, panelVars, prVars>>

\* the message listener of the content script, TOGGLE_SELECTION_MODE
ToggleSelectionMode(enabled) ==
    /\ sent < MaxMessages
    /\ selectionModeEnabled' = enabled
    /\ IF ~enabled /\ selectedElement # NoTarget
       THEN /\ selectedElement' = NoTarget
            /\ SendMessage(DeselectedMessage(sent + 1, "toggle"))
       ELSE UNCHANGED <<selectedElement, toBackground, toPanel, sent>>
    /\ UNCHANGED <<hoveredElement, pageClasses, styles>>
    /\ UNCHANGED <<serverVars, queueVars, panelVars, prVars>>

\* selectedElement || hoveredElement
TargetElement == IF selectedElement # NoTarget THEN selectedElement ELSE hoveredElement

\* the message listener of the content script, APPLY_STYLES
ApplyStyles(className) ==
    /\ BagIn(StylesMessage("APPLY_STYLES", className), styles)
    /\ styles' = Settled(styles, StylesMessage("APPLY_STYLES", className))
    /\ pageClasses' = IF TargetElement # NoTarget
                      THEN [pageClasses EXCEPT ![TargetElement] = className]
                      ELSE pageClasses
    /\ UNCHANGED <<selectionModeEnabled, selectedElement, hoveredElement,
                   toBackground, toPanel, sent>>
    /\ UNCHANGED <<serverVars, queueVars, panelVars, prVars>>

\* what the background script sends on for a message of the content script
Relayed(m) ==
    [m EXCEPT !.relayed = TRUE, !.elementIndex = Undefined,
              !.type = IF m.type = "HOVER_ELEMENT" THEN "ELEMENT_HOVERED" ELSE m.type]

\* the message router of the background script, on a message of the content
\* script
BackgroundRelay(m) ==
    /\ toBackground' = toBackground \ {m}
    /\ toPanel' = toPanel \cup {Relayed(m)}
    /\ UNCHANGED <<selectionModeEnabled, selectedElement, hoveredElement,
                   pageClasses, sent, styles>>
    /\ UNCHANGED <<serverVars, queueVars, panelVars, prVars>>

\* the message router of the background script, UPDATE_STYLES
BackgroundForward(className) ==
    /\ BagIn(StylesMessage("UPDATE_STYLES", className), styles)
    /\ styles' = Started(Settled(styles, StylesMessage("UPDATE_STYLES", className)),
                         StylesMessage("APPLY_STYLES", className))
    /\ UNCHANGED scriptVars
    /\ UNCHANGED <<serverVars, queueVars, panelVars, prVars>>

\* a message reaches the messageHandler of the sidepanel, which has no
\* branch for HOVER_ELEMENT
DeliverToPanel(m) ==
    /\ toPanel' = toPanel \ {m}
    /\ CASE m.type = "ELEMENT_SELECTED" -> ElementSelected(m)
         [] m.type = "ELEMENT_DESELECTED" -> ElementDeselected
         [] m.type = "ELEMENT_HOVERED" -> ElementHovered(m)
         [] OTHER -> UNCHANGED <<panelVars, serverVars, queueVars, prVars>>
    /\ UNCHANGED <<selectionModeEnabled, selectedElement, hoveredElement,
                   pageClasses, toBackground, sent, styles>>

\* the class names an UPDATE_STYLES message can carry
StyleValues == TextareaValues \cup {LoadedClasses[k] : k \in 1..Len(Page)}

\* the content script and the messages it sends on their way through the
\* background script to the panel's message handler, with the storage read
\* of the mount effect that gives the panel its server URL
ContentNext ==
    \/ \E target \in 1..Len(Page) : Click(target)
    \/ \E target \in 1..Len(Page) : MouseOver(target)
    \/ \E enabled \in BOOLEAN : ToggleSelectionMode(enabled)
    \/ \E m \in toBackground : BackgroundRelay(m)
    \/ \E m \in toPanel : DeliverToPanel(m)
    \/ \E result \in StorageWithoutRepo : StorageLoaded(result)

ContentSpec == PanelInit /\ [][ContentNext]_vars

\* the listeners of the content script, with the panel of a user who has no
\* dev server: the messages of the content script reach the panel, and the
\* Apply button sends the shown classes back to the page
ScriptNext ==
    \/ \E target \in 1..Len(Page) : Click(target)
    \/ \E target \in 1..Len(Page) : MouseOver(target)
    \/ \E enabled \in BOOLEAN : ToggleSelectionMode(enabled)
    \/ \E className \in StyleValues : ApplyStyles(className)
    \/ \E className \in StyleValues : BackgroundForward(className)
    \/ \E m \in toPanel : DeliverToPanel(m)
    \/ HandleSave

ScriptSpec == PanelInit /\ [][ScriptNext]_vars

\* the same with the class textarea: the preview of edited classes in the
\* page
PreviewNext ==
    \/ ScriptNext
    \/ \E value \in TextareaValues : TextareaChange(value)

PreviewSpec == PanelInit /\ [][PreviewNext]_vars

----------------------------------------------------------------------------
(* handleCreatePR (App.tsx 311-437) and the GitHub calls it awaits.  Each  *)
(* action is the return of the call handleCreatePR is waiting for, with    *)
(* the code that runs up to the next await.  A call to GitHub may fail.    *)
(* The blob SHA of a file is modelled by the content it names.             *)

\* x\apps\A, a path as a Windows server reports it
WindowsFilePath == <<"x", BS, "a", "p", "p", "s", BS, "A">>

\* p.replace(/\\/g, '/')
ReplaceBackslashes(p) == [i \in 1..Len(p) |-> IF p[i] = BS THEN "/" ELSE p[i]]

\* p.indexOf(needle), searching from position i (counted from 0)
RECURSIVE PathIndexOf(_, _, _)
PathIndexOf(p, needle, i) ==
    IF i + Len(needle) > Len(p) THEN -1
    ELSE IF SubSeq(p, i + 1, i + Len(needle)) = needle THEN i
    ELSE PathIndexOf(p, needle, i + 1)

\* if (appsIdx !== -1) return p.slice(appsIdx); return p
SliceFrom(p, appsIdx) ==
    IF appsIdx # -1 THEN SubSeq(p, appsIdx + 1, Len(p)) ELSE p

\* 'apps/'
AppsNeedle == <<"a", "p", "p", "s", "/">>

\* the repoPath of a change, given the path with forward slashes
RepoPathFrom(p) == SliceFrom(p, PathIndexOf(p, AppsNeedle, 0))

\* the repoPath of a change
RepoPathOf(filePath) == RepoPathFrom(ReplaceBackslashes(filePath))

\* the position of the key among the entries of the map, 0 if it has none
RECURSIVE KeyIndex(_, _, _)
KeyIndex(groups, repoPath, i) ==
    IF i > Len(groups) THEN 0
    ELSE IF groups[i].repoPath = repoPath THEN i
    ELSE KeyIndex(groups, repoPath, i + 1)

\* mutant: the map never finds the key, so every change starts a new list
GroupGetNever(groups, repoPath) == Undefined

\* changesByFile.get(repoPath): the list of the key, or undefined
GroupGet(groups, repoPath) ==
    IF KeyIndex(groups, repoPath, 1) = 0 THEN Undefined
    ELSE [defined |-> TRUE, value |-> groups[KeyIndex(groups, repoPath, 1)].list]

\* ... ?? []
OrEmptyList(list) == IF list.defined THEN list.value ELSE << >>

\* changesByFile.set(repoPath, list): a new key goes last, a known key keeps
\* its place
GroupSet(groups, repoPath, list) ==
    IF KeyIndex(groups, repoPath, 1) = 0
    THEN Append(groups, [repoPath |-> repoPath, list |-> list])
    ELSE [groups EXCEPT ![KeyIndex(groups, repoPath, 1)].list = list]

\* the body of the grouping loop: get, push, set
GroupAdd(groups, repoPath, change) ==
    GroupSet(groups, repoPath,
             Append(OrEmptyList(GroupGet(groups, repoPath)), change))

\* the grouping loop over selectedChanges, from the i-th on; the map keeps
\* its keys in insertion order
RECURSIVE ChangesByFile(_, _, _)
ChangesByFile(selectedChanges, i, groups) ==
    IF i > Len(selectedChanges) THEN groups
    ELSE ChangesByFile(selectedChanges, i + 1,
            GroupAdd(groups, RepoPathOf(selectedChanges[i].filePath),
                     selectedChanges[i]))

\* the loop applying the changes of one file in order, from the i-th on;
\* an updateFileContent that throws ends it
RECURSIVE ApplyChanges(_, _, _)
ApplyStep(result, list, i) ==
    IF result.type = "throw" THEN result
    ELSE ApplyChanges(result.code, list, i + 1)

ApplyChanges(content, list, i) ==
    IF i > Len(list) THEN [type |-> "return", code |-> content]
    ELSE ApplyStep(updateFileContent(content, list[i].tagName,
                        list[i].newClassName, list[i].elementIndex), list, i)

\* data.sha
BlobSha(content) == content

\* the file at a path of a branch
FileAt(files, path) == IF path \in DOMAIN files THEN files[path] ELSE NoFile

\* githubChanges.filter((c) => c.selected)
SelectedOf(changes) == SelectSeq(changes, LAMBDA c : c.selected)

\* mutant: a created pull request clears the whole list
WithoutSelectedClearsAll(prev, selectedChanges) == << >>

\* prev.filter((c) => !selectedChanges.find((sc) => sc.id === c.id))
WithoutSelected(prev, selectedChanges) ==
    SelectSeq(prev, LAMBDA c :
        \A j \in 1..Len(selectedChanges) : selectedChanges[j].id # c.id)

\* a character that has no TLA+ notation is written as its code point
NBSP == "U+00A0"

\* the Unicode space separators (category Zs)
SpaceSeparators ==
    {SP, NBSP, "U+1680", "U+2000", "U+2001", "U+2002", "U+2003", "U+2004",
     "U+2005", "U+2006", "U+2007", "U+2008", "U+2009", "U+200A", "U+202F",
     "U+205F", "U+3000"}

\* the line terminators of ECMAScript: LF, CR, LS, PS
LineTerminators == {"\n", "\r", "U+2028", "U+2029"}

\* what String.prototype.trim removes: the white space of ECMAScript (TAB,
\* VT, FF, ZWNBSP and the space separators) and the line terminators
WhiteSpace ==
    {"\t", "U+000B", "\f", "U+FEFF"} \cup SpaceSeparators \cup LineTerminators

\* s.trim() is empty
IsBlank(s) == \A i \in 1..Len(s) : s[i] \in WhiteSpace

\* what the user types into the PR Title input: nothing, p, a tab and a
\* no-break space
TitleValues == { << >>, <<"p">>, <<"\t", NBSP>> }

\* the file of the demo app
RepoFile ==
    [syntaxOk |-> TRUE, layout |-> "source", elements |-> <<DivLiteral, DivConditional>>]

\* a file Babel cannot parse
BrokenFile ==
    [syntaxOk |-> FALSE, layout |-> "source", elements |-> <<DivLiteral>>]

\* the default branch: apps/A is there, src/A is there or is broken
BaseRepos ==
    { (RepoRelativePath :> RepoFile) @@ (DefaultFilePath :> f) :
        f \in {RepoFile, BrokenFile} }

\* the path, the new class name and the element of the changes that get
\* recorded: the two changes of apps/A edit different elements of the file
ChangeTemplates ==
    { <<RepoRelativePath, <<"p", "a">>, 0>>,
      <<WindowsFilePath, <<"p", "a", SP, "c">>, 1>>,
      <<DefaultFilePath, <<"p", "a">>, 0>> }

\* the i-th recorded change
RecordedChange(i, template, selected) ==
    [id |-> i, filePath |-> template[1], tagName |-> "div",
     oldClassName |-> <<"a", SP, "c">>, newClassName |-> template[2],
     elementIndex |-> Ordinal(template[3]), selected |-> selected]

\* the lists of recorded changes found in storage
RecordedChanges ==
    UNION { { [i \in 1..k |-> RecordedChange(i, f[i][1], f[i][2])] :
                f \in [1..k -> ChangeTemplates \X BOOLEAN] } :
            k \in 0..MaxChanges }

PRInit ==
    /\ sourceFile \in PanelFiles
    /\ call = NoCall
    /\ response = NoResponse
    /\ handled = 0
    /\ inflight = {}
    /\ received = << >>
    /\ startFile = sourceFile
    /\ NothingSelected
    /\ githubChanges \in RecordedChanges
    /\ devServerUrl = ""
    /\ isConnected = FALSE
    /\ isGithubConnected = TRUE
    /\ githubRepo = RepoFullName
    /\ showDevServerModal = FALSE
    /\ showRepoSelection = FALSE
    /\ pending = EmptyBag
    /\ showPRModal = FALSE
    /\ prTitle = << >>
    /\ isCreatingPR = FALSE
    /\ pr = NoPR
    /\ baseFiles \in BaseRepos
    /\ branchFiles = << >>
    /\ log = << >>
    /\ started = 0
    /\ ContentLoaded

\* an entry of the log of GitHub calls
Called(op, path, sha, ok) == [op |-> op, path |-> path, sha |-> sha, ok |-> ok]

\* catch and finally of handleCreatePR
CreatePRFailed ==
    /\ pr' = [pr EXCEPT !.pc = "idle", !.outcome = "failed"]
    /\ isCreatingPR' = FALSE
    /\ UNCHANGED <<githubChanges, prTitle, showPRModal>>

\* the pull-request dialog is on screen: {showPRModal && ...} is part of
\* the edit view and of the default view, the hover view has no dialog
PRModalRendered == showPRModal /\ (EditView \/ DefaultView)

\* the Create Pull Request button of the default view, rendered while
\* connected with changes recorded
OpenPRModal ==
    /\ DefaultView
    /\ isGithubConnected
    /\ Len(githubChanges) > 0
    /\ ~showPRModal
    /\ showPRModal' = TRUE
    /\ UNCHANGED <<prTitle, isCreatingPR, pr, baseFiles, branchFiles, log, started>>
    /\ UNCHANGED <<githubChanges, selectionVars, serverVars, queueVars, contentVars>>

\* the close button of the pull-request dialog
ClosePRModal ==
    /\ PRModalRendered
    /\ showPRModal' = FALSE
    /\ prTitle' = << >>
    /\ UNCHANGED <<isCreatingPR, pr, baseFiles, branchFiles, log, started>>
    /\ UNCHANGED <<githubChanges, selectionVars, serverVars, queueVars, contentVars>>

\* onChange of the PR Title input
TitleChange(value) ==
    /\ PRModalRendered
    /\ value # prTitle
    /\ prTitle' = value
    /\ UNCHANGED <<showPRModal, isCreatingPR, pr, baseFiles, branchFiles, log, started>>
    /\ UNCHANGED <<githubChanges, selectionVars, serverVars, queueVars, contentVars>>

\* handleCreatePR up to its first await; the button is disabled while a
\* pull request is being created
HandleCreatePR ==
    /\ PRModalRendered
    /\ pr.pc = "idle"
    /\ ~isCreatingPR
    /\ started < MaxPRs
    /\ IF \/ Len(githubChanges) = 0
          \/ Len(SelectedOf(githubChanges)) = 0
          \/ IsBlank(prTitle)
          \/ ParseRepo(githubRepo) = Null
       THEN UNCHANGED prVars
       ELSE /\ isCreatingPR' = TRUE
            /\ pr' = [NoPR EXCEPT !.pc = "getDefaultBranch",
                                  !.selectedChanges = SelectedOf(githubChanges)]
            /\ log' = << >>
            /\ started' = started + 1
            /\ UNCHANGED <<showPRModal, prTitle, baseFiles, branchFiles>>
    /\ UNCHANGED <<githubChanges, selectionVars, serverVars, queueVars, contentVars>>

\* getDefaultBranch returns or throws
GetDefaultBranchReturns(ok) ==
    /\ pr.pc = "getDefaultBranch"
    /\ log' = Append(log, Called("getDefaultBranch", << >>, Null, ok))
    /\ IF ok
       THEN /\ pr' = [pr EXCEPT !.pc = "createBranch"]
            /\ UNCHANGED <<githubChanges, prTitle, isCreatingPR, showPRModal>>
       ELSE CreatePRFailed
    /\ UNCHANGED <<baseFiles, branchFiles, started>>
    /\ UNCHANGED <<selectionVars, serverVars, queueVars, contentVars>>

\* createBranch returns or throws; on return the changes are grouped and
\* the first file is asked for
CreateBranchReturns(ok) ==
    /\ pr.pc = "createBranch"
    /\ log' = Append(log, Called("createBranch", << >>, Null, ok))
    /\ IF ok
       THEN /\ branchFiles' = baseFiles
            /\ pr' = [pr EXCEPT !.pc = "getFileContent", !.cursor = 1,
                         !.changesByFile = ChangesByFile(pr.selectedChanges, 1, << >>)]
            /\ UNCHANGED <<githubChanges, prTitle, isCreatingPR, showPRModal>>
       ELSE /\ CreatePRFailed
            /\ UNCHANGED branchFiles
    /\ UNCHANGED <<baseFiles, started>>
    /\ UNCHANGED <<selectionVars, serverVars, queueVars, contentVars>>

\* fileChanges after the try block of one file: the entry is pushed unless
\* getFileContent or updateFileContent threw
FileChangesWith(fileChanges, repoPath, file, result) ==
    IF result.type = "return"
    THEN Append(fileChanges,
                [path |-> repoPath, content |-> result.code, sha |-> BlobSha(file)])
    ELSE fileChanges

\* the try block of one file, given the file on the branch and whether
\* getFileContent returned it
ProcessFile(fileChanges, group, file, fetched) ==
    FileChangesWith(fileChanges, group.repoPath, file,
        IF fetched THEN ApplyChanges(file, group.list, 1) ELSE [type |-> "throw"])

\* mutant: the pull request is asked for even if no file change was built
AfterFileNoCheck(fileChanges) ==
    IF pr.cursor < Len(pr.changesByFile)
    THEN /\ pr' = [pr EXCEPT !.fileChanges = fileChanges, !.cursor = pr.cursor + 1]
         /\ UNCHANGED <<githubChanges, prTitle, isCreatingPR, showPRModal>>
    ELSE /\ pr' = [pr EXCEPT !.pc = IF Len(fileChanges) = 0
                                    THEN "createPullRequest" ELSE "updateFile",
                             !.fileChanges = fileChanges, !.cursor = 1]
         /\ UNCHANGED <<githubChanges, prTitle, isCreatingPR, showPRModal>>

\* the loop over changesByFile goes on, or ends and commitChanges starts
AfterFile(fileChanges) ==
    IF pr.cursor < Len(pr.changesByFile)
    THEN /\ pr' = [pr EXCEPT !.fileChanges = fileChanges, !.cursor = pr.cursor + 1]
         /\ UNCHANGED <<githubChanges, prTitle, isCreatingPR, showPRModal>>
    ELSE IF Len(fileChanges) = 0
    THEN /\ pr' = [pr EXCEPT !.pc = "idle", !.outcome = "failed",
                             !.fileChanges = fileChanges]
         /\ isCreatingPR' = FALSE
         /\ UNCHANGED <<githubChanges, prTitle, showPRModal>>
    ELSE /\ pr' = [pr EXCEPT !.pc = "updateFile", !.fileChanges = fileChanges,
                             !.cursor = 1]
         /\ UNCHANGED <<githubChanges, prTitle, isCreatingPR, showPRModal>>

\* getFileContent of the file at the cursor returns or throws
GetFileContentOf(group, file, fetched) ==
    /\ log' = Append(log, Called("getFileContent", group.repoPath, Null, fetched))
    /\ AfterFile(ProcessFile(pr.fileChanges, group, file, fetched))

GetFileContentReturns(ok) ==
    /\ pr.pc = "getFileContent"
    /\ GetFileContentOf(pr.changesByFile[pr.cursor],
            FileAt(branchFiles, pr.changesByFile[pr.cursor].repoPath),
            ok /\ FileAt(branchFiles, pr.changesByFile[pr.cursor].repoPath) # NoFile)
    /\ UNCHANGED <<baseFiles, branchFiles, started>>
    /\ UNCHANGED <<selectionVars, serverVars, queueVars, contentVars>>

\* createOrUpdateFileContents accepts an update of a file of the branch
\* that names the file's current blob
Accepts(files, change) ==
    /\ FileAt(files, change.path) # NoFile
    /\ BlobSha(FileAt(files, change.path)) = change.sha

\* updateFile of the file change at the cursor returns or throws
UpdateFileOf(change, committed) ==
    /\ log' = Append(log, Called("updateFile", change.path, change.sha, committed))
    /\ IF committed
       THEN /\ branchFiles' = [branchFiles EXCEPT ![change.path] = change.content]
            /\ pr' = IF pr.cursor < Len(pr.fileChanges)
                     THEN [pr EXCEPT !.cursor = pr.cursor + 1]
                     ELSE [pr EXCEPT !.pc = "createPullRequest"]
            /\ UNCHANGED <<githubChanges, prTitle, isCreatingPR, showPRModal>>
       ELSE /\ CreatePRFailed
            /\ UNCHANGED branchFiles

UpdateFileReturns(ok) ==
    /\ pr.pc = "updateFile"
    /\ UpdateFileOf(pr.fileChanges[pr.cursor],
                    ok /\ Accepts(branchFiles, pr.fileChanges[pr.cursor]))
    /\ UNCHANGED <<baseFiles, started>>
    /\ UNCHANGED <<selectionVars, serverVars, queueVars, contentVars>>

\* createPullRequest returns or throws
CreatePullRequestReturns(ok) ==
    /\ pr.pc = "createPullRequest"
    /\ log' = Append(log, Called("createPullRequest", << >>, Null, ok))
    /\ IF ok
       THEN /\ githubChanges' = WithoutSelected(githubChanges, pr.selectedChanges)
            /\ showPRModal' = FALSE
            /\ prTitle' = << >>
            /\ pr' = [pr EXCEPT !.pc = "idle", !.outcome = "created"]
            /\ isCreatingPR' = FALSE
       ELSE CreatePRFailed
    /\ UNCHANGED <<baseFiles, branchFiles, started>>
    /\ UNCHANGED <<selectionVars, serverVars, queueVars, contentVars>>

\* the checkbox of a change in the pull-request dialog
ToggleChange(id) ==
    /\ PRModalRendered
    /\ githubChanges' =
           [i \in 1..Len(githubChanges) |->
               IF githubChanges[i].id = id
               THEN [githubChanges[i] EXCEPT !.selected = ~githubChanges[i].selected]
               ELSE githubChanges[i]]
    /\ UNCHANGED <<prVars, selectionVars, serverVars, queueVars, contentVars>>

\* the pull-request dialog and handleCreatePR, with the selection and
\* hover messages that switch the view of the panel
PRNext ==
    \/ \E message \in IndexedMessages :
          ElementSelected(message) /\ UNCHANGED contentVars
    \/ ElementDeselected /\ UNCHANGED contentVars
    \/ \E message \in IndexedMessages :
          ElementHovered(message) /\ UNCHANGED contentVars
    \/ OpenPRModal
    \/ ClosePRModal
    \/ \E value \in TitleValues : TitleChange(value)
    \/ HandleCreatePR
    \/ \E i \in 1..Len(githubChanges) : ToggleChange(githubChanges[i].id)
    \/ \E ok \in BOOLEAN : GetDefaultBranchReturns(ok)
    \/ \E ok \in BOOLEAN : CreateBranchReturns(ok)
    \/ \E ok \in BOOLEAN : GetFileContentReturns(ok)
    \/ \E ok \in BOOLEAN : UpdateFileReturns(ok)
    \/ \E ok \in BOOLEAN : CreatePullRequestReturns(ok)

PRSpec == PRInit /\ [][PRNext]_vars

----------------------------------------------------------------------------
(* Vocabulary of the claims, stated on the file rather than on the         *)
(* traversal's counters.                                                   *)

IsUpdate == call.fn = "updateClassNameWithAST"

IsRead == call.fn = "getClassNameExpression"

\* positions of the elements named tagName, in document order
Occurrences(elements, tagName) ==
    {k \in 1..Len(elements) : elements[k].name = JSXIdentifier(tagName)}

\* 0-based ordinal of the occurrence at position k
OrdinalOf(elements, tagName, k) ==
    Cardinality({j \in Occurrences(elements, tagName) : j < k})

\* positions an (tagName, elementIndex) address stands for
Addressed(elements, tagName, elementIndex) ==
    IF elementIndex.defined
    THEN {k \in Occurrences(elements, tagName) :
            OrdinalOf(elements, tagName, k) = elementIndex.value}
    ELSE Occurrences(elements, tagName)

\* the className attribute nodes of an element
ClassNameAttrs(node) ==
    {k \in 1..Len(node.attributes) :
        node.attributes[k].type = "JSXAttribute"
        /\ node.attributes[k].name = JSXIdentifier("className")}

HasClassName(node) == ClassNameAttrs(node) # {}

\* the value node of the element's (first) className attribute
ClassNameValue(node) ==
    node.attributes[CHOOSE k \in ClassNameAttrs(node) :
                        \A j \in ClassNameAttrs(node) : k <= j].value

\* what a reader is to report for a value node
Reported(v) ==
    CASE v.type = "StringLiteral" -> [type |-> "string", value |-> v.value]
      [] v.type = "JSXExpressionContainer" ->
            [type |-> "string", value |-> GenerateExpression(v.expression)]
      [] OTHER -> Null

InputAst == Parse(call.sourceCode)

Returned == call.outcome.type = "return"

----------------------------------------------------------------------------
(* C1: updateClass with an ordinal i, on a parseable file where the tag    *)
(* occurs at least i+1 times, returns a file with the same elements in     *)
(* which every element other than the i-th occurrence of the tag has the   *)
(* attribute list it had.                                                  *)
C1_OnlyAddressedOccurrenceChanges ==
    (/\ IsUpdate
     /\ call.elementIndex.defined
     /\ InputAst.ok
     /\ Cardinality(Occurrences(InputAst.elements, call.tagName))
            >= call.elementIndex.value + 1)
    => /\ Returned
       /\ Len(call.outcome.code.elements) = Len(InputAst.elements)
       /\ \A k \in 1..Len(InputAst.elements) :
            \/ k \in Addressed(InputAst.elements, call.tagName, call.elementIndex)
            \/ ParseElement(call.outcome.code.elements[k])
                  = [ok |-> TRUE, node |-> InputAst.elements[k]]

\* the middle one of three divs is updated
C1_Witness ==
    /\ IsUpdate
    /\ call.elementIndex = Ordinal(1)
    /\ call.tagName = "div"
    /\ InputAst.ok
    /\ Cardinality(Occurrences(InputAst.elements, "div")) = 3
    /\ Returned
    /\ call.outcome.code # call.sourceCode

----------------------------------------------------------------------------
(* C2: getClassExpression with an ordinal i reports the className value of *)
(* the i-th occurrence of the tag, and null when that occurrence has no    *)
(* className or the tag occurs fewer than i+1 times.                       *)
C2_ReadsAddressedOccurrence ==
    (IsRead /\ call.elementIndex.defined /\ InputAst.ok)
    => LET at == Addressed(InputAst.elements, call.tagName, call.elementIndex)
       IN  IF at = {} THEN call.outcome = Null
           ELSE \A k \in at :
                  IF HasClassName(InputAst.elements[k])
                  THEN call.outcome = Reported(ClassNameValue(InputAst.elements[k]))
                  ELSE call.outcome = Null

----------------------------------------------------------------------------
(* C3: updateClass on a parseable file returns its input text unchanged,   *)
(* without throwing, when the address selects no element.                  *)
C3_NotFoundReturnsInput ==
    (/\ IsUpdate
     /\ InputAst.ok
     /\ Addressed(InputAst.elements, call.tagName, call.elementIndex) = {})
    => call.outcome = [type |-> "return", code |-> call.sourceCode]

\* an ordinal past the last occurrence of a tag the file does contain
C3_Witness ==
    /\ IsUpdate
    /\ InputAst.ok
    /\ call.elementIndex.defined
    /\ Occurrences(InputAst.elements, call.tagName) # {}
    /\ Addressed(InputAst.elements, call.tagName, call.elementIndex) = {}
    /\ call.outcome = [type |-> "return", code |-> call.sourceCode]
    /\ sourceFile.layout = "source"

----------------------------------------------------------------------------
(* C4: on source text that does not parse, each operation ends in an       *)
(* outcome different from the one it gives for "not found" on a parseable  *)
(* file.                                                                   *)
EmptyModule == [syntaxOk |-> TRUE, layout |-> "source", elements |-> << >>]

NotFoundOutcome ==
    IF IsRead
    THEN getClassNameExpression(EmptyModule, call.tagName, call.elementIndex)
    ELSE updateClassNameWithAST(EmptyModule, call.tagName, call.newClassName,
                                call.elementIndex)

C4_ParseFailureDistinguishable ==
    ((IsRead \/ IsUpdate) /\ ~InputAst.ok) => call.outcome # NotFoundOutcome

----------------------------------------------------------------------------
(* How the Writer is to classify a new value *)

IsConditionalText(v) ==
    LET parsed == ParseExpression(v)
    IN  parsed.ok /\ parsed.node.type = "ConditionalExpression"

IsStringLiteralText(v) ==
    LET parsed == ParseExpression(v)
    IN  parsed.ok /\ parsed.node.type = "StringLiteral"

IsOpaqueText(v) == ~IsConditionalText(v) /\ ~IsStringLiteralText(v)

HasChar(v, chars) == \E i \in 1..Len(v) : v[i] \in chars

OutputAst == Parse(call.outcome.code)

AddressedNow == Addressed(InputAst.elements, call.tagName, call.elementIndex)

\* two attribute values of the same kind and the same value
SameValue(a, b) == a.type = b.type /\ Reported(a) = Reported(b)

----------------------------------------------------------------------------
(* C5: write-then-read round trip: for any valid file, tag, ordinal i of   *)
(* an occurrence of the tag and new literal value v without quote          *)
(* characters, reading (tag, i) from the updated file gives v.             *)
C5_WriteThenRead ==
    (/\ IsUpdate
     /\ call.elementIndex.defined
     /\ InputAst.ok
     /\ AddressedNow # {}
     /\ ~IsConditionalText(call.newClassName)
     /\ ~HasChar(call.newClassName, {SQ, DQ}))
    => /\ Returned
       /\ getClassNameExpression(call.outcome.code, call.tagName, call.elementIndex)
            = [type |-> "string", value |-> call.newClassName]

\* the round trip of the values jsesc prints as they are: printable ASCII
\* with no quote, no backslash and no "&"
WriteThenReadUnescaped ==
    (/\ IsUpdate
     /\ call.elementIndex.defined
     /\ InputAst.ok
     /\ AddressedNow # {}
     /\ ~IsConditionalText(call.newClassName)
     /\ ~HasChar(call.newClassName, {SQ, DQ, BS, AMP, CAP}))
    => /\ Returned
       /\ getClassNameExpression(call.outcome.code, call.tagName, call.elementIndex)
            = [type |-> "string", value |-> call.newClassName]

----------------------------------------------------------------------------
(* C6: updateClass is idempotent: applying the same update to its own      *)
(* result returns that result.                                             *)
C6_Idempotent ==
    (IsUpdate /\ Returned)
    => updateClassNameWithAST(call.outcome.code, call.tagName, call.newClassName,
                              call.elementIndex) = call.outcome

----------------------------------------------------------------------------
(* C7: writing back the value r the Reader reports for an element's        *)
(* className leaves that attribute with the same kind and value.           *)
C7_ReadThenWrite ==
    (/\ IsRead
     /\ call.elementIndex.defined
     /\ InputAst.ok
     /\ call.outcome.type = "string"
     /\ \E k \in AddressedNow : HasClassName(InputAst.elements[k]))
    => LET w == updateClassNameWithAST(call.sourceCode, call.tagName,
                                       call.outcome.value, call.elementIndex)
       IN  /\ w.type = "return"
           /\ Parse(w.code).ok
           /\ \A k \in AddressedNow :
                /\ HasClassName(Parse(w.code).elements[k])
                /\ SameValue(ClassNameValue(Parse(w.code).elements[k]),
                             ClassNameValue(InputAst.elements[k]))

----------------------------------------------------------------------------
(* C8: a new value that parses as a conditional expression is stored on    *)
(* every selected element as an expression container holding that          *)
(* conditional, whether className was replaced or appended.                *)
C8_ConditionalStoredAsContainer ==
    (/\ IsUpdate
     /\ InputAst.ok
     /\ AddressedNow # {}
     /\ IsConditionalText(call.newClassName))
    => /\ Returned
       /\ OutputAst.ok
       /\ \A k \in AddressedNow :
            /\ HasClassName(OutputAst.elements[k])
            /\ ClassNameValue(OutputAst.elements[k])
                 = JSXExpressionContainer(ParseExpression(call.newClassName).node)

\* one call that replaces className on one div and appends it on another
C8_Witness ==
    /\ IsUpdate
    /\ InputAst.ok
    /\ IsConditionalText(call.newClassName)
    /\ \E k \in AddressedNow : HasClassName(InputAst.elements[k])
    /\ \E k \in AddressedNow : ~HasClassName(InputAst.elements[k])
    /\ Returned
    /\ sourceFile = call.outcome.code

----------------------------------------------------------------------------
(* C9: a new value that parses as a string literal leaves className equal  *)
(* to that literal's string content, for a replaced attribute and for an   *)
(* appended one alike.                                                     *)
C9_StringLiteralContent ==
    (/\ IsUpdate
     /\ InputAst.ok
     /\ AddressedNow # {}
     /\ IsStringLiteralText(call.newClassName))
    => /\ Returned
       /\ OutputAst.ok
       /\ \A k \in AddressedNow :
            /\ HasClassName(OutputAst.elements[k])
            /\ Reported(ClassNameValue(OutputAst.elements[k]))
                 = [type |-> "string",
                    value |-> ParseExpression(call.newClassName).node.value]
            /\ ClassNameValue(OutputAst.elements[k]).type = "StringLiteral"

----------------------------------------------------------------------------
(* C10: a new value that does not parse, or parses to neither a            *)
(* conditional nor a string literal, never makes updateClass fail: the     *)
(* call returns and the selected element's className is a string literal   *)
(* whose text is exactly the new value.                                    *)
C10_OpaqueValueBecomesLiteral ==
    (/\ IsUpdate
     /\ InputAst.ok
     /\ AddressedNow # {}
     /\ IsOpaqueText(call.newClassName))
    => /\ Returned
       /\ OutputAst.ok
       /\ \A k \in AddressedNow :
            /\ HasClassName(OutputAst.elements[k])
            /\ ClassNameValue(OutputAst.elements[k]).type = "StringLiteral"
            /\ ClassNameValue(OutputAst.elements[k]).value = call.newClassName

----------------------------------------------------------------------------
(* C11: on every selected element updateClass keeps the attributes other   *)
(* than className as they were and in their order: an existing className   *)
(* stays at its position, a missing one is added as one attribute at the   *)
(* end of the list.                                                        *)

\* position of the element's first className attribute
ClassNameAt(node) ==
    CHOOSE k \in ClassNameAttrs(node) : \A j \in ClassNameAttrs(node) : k <= j

\* the printed attribute b is a className attribute
IsClassNameText(b) == b.type = "JSXAttribute" /\ b.name = JSXIdentifier("className")

\* the printed attribute b is the attribute a of the tree
SameAttribute(b, a) == ParseAttribute(b) = [ok |-> TRUE, node |-> a]

C11_OtherAttributesKept ==
    (IsUpdate /\ InputAst.ok /\ AddressedNow # {})
    => /\ Returned
       /\ \A k \in AddressedNow :
            LET a == InputAst.elements[k].attributes
                b == call.outcome.code.elements[k].attributes
            IN  IF HasClassName(InputAst.elements[k])
                THEN /\ Len(b) = Len(a)
                     /\ IsClassNameText(b[ClassNameAt(InputAst.elements[k])])
                     /\ \A j \in 1..Len(a) :
                          j # ClassNameAt(InputAst.elements[k])
                             => SameAttribute(b[j], a[j])
                ELSE /\ Len(b) = Len(a) + 1
                     /\ IsClassNameText(b[Len(b)])
                     /\ \A j \in 1..Len(a) : SameAttribute(b[j], a[j])

\* one call replaces className in front of id on one div and appends it
\* after id and the spread on another
C11_Witness ==
    /\ IsUpdate
    /\ InputAst.ok
    /\ \E k \in AddressedNow :
          /\ HasClassName(InputAst.elements[k])
          /\ Len(InputAst.elements[k].attributes) > 1
          /\ ClassNameAt(InputAst.elements[k]) = 1
    /\ \E k \in AddressedNow :
          /\ ~HasClassName(InputAst.elements[k])
          /\ Len(InputAst.elements[k].attributes) > 1
    /\ Returned
    /\ sourceFile = call.outcome.code
    /\ sourceFile.layout = "generated"

----------------------------------------------------------------------------
(* C12: without an ordinal getClassExpression returns the attribute state  *)
(* of the last occurrence of the tag: its className value, or null when    *)
(* the last occurrence has no className.                                   *)
LastOccurrence(elements, tagName) ==
    CHOOSE k \in Occurrences(elements, tagName) :
        \A j \in Occurrences(elements, tagName) : j <= k

C12_ReadsLastOccurrence ==
    (/\ IsRead
     /\ ~call.elementIndex.defined
     /\ InputAst.ok
     /\ Occurrences(InputAst.elements, call.tagName) # {})
    => LET last == InputAst.elements[LastOccurrence(InputAst.elements, call.tagName)]
       IN  call.outcome = IF HasClassName(last)
                          THEN Reported(ClassNameValue(last)) ELSE Null

----------------------------------------------------------------------------
(* C13: without an ordinal updateClass gives every occurrence of the tag   *)
(* the new value as its className, replaced where there was one and        *)
(* appended where there was none, and leaves the elements of other tags    *)
(* as they were.                                                           *)

\* the className of the element is the new value v: the conditional v
\* parses to, in an expression container; else the content of the string
\* literal v parses to; else the text v itself
HasNewValue(node, v) ==
    /\ HasClassName(node)
    /\ IF IsConditionalText(v)
       THEN ClassNameValue(node) = JSXExpressionContainer(ParseExpression(v).node)
       ELSE /\ ClassNameValue(node).type = "StringLiteral"
            /\ ClassNameValue(node).value =
                  IF IsStringLiteralText(v) THEN ParseExpression(v).node.value ELSE v

C13_UpdatesEveryOccurrence ==
    (IsUpdate /\ ~call.elementIndex.defined /\ InputAst.ok)
    => /\ Returned
       /\ OutputAst.ok
       /\ Len(OutputAst.elements) = Len(InputAst.elements)
       /\ \A k \in 1..Len(InputAst.elements) :
            IF k \in Occurrences(InputAst.elements, call.tagName)
            THEN HasNewValue(OutputAst.elements[k], call.newClassName)
            ELSE OutputAst.elements[k] = InputAst.elements[k]

\* what the traversal does do without an ordinal: every occurrence of the
\* tag is printed with a className attribute, whatever its value, and the
\* elements of other tags are printed as they were
EveryOccurrenceWritten ==
    (IsUpdate /\ ~call.elementIndex.defined /\ InputAst.ok)
    => /\ Returned
       /\ Len(call.outcome.code.elements) = Len(InputAst.elements)
       /\ \A k \in 1..Len(InputAst.elements) :
            IF k \in Occurrences(InputAst.elements, call.tagName)
            THEN \E j \in 1..Len(call.outcome.code.elements[k].attributes) :
                    IsClassNameText(call.outcome.code.elements[k].attributes[j])
            ELSE ParseElement(call.outcome.code.elements[k])
                    = [ok |-> TRUE, node |-> InputAst.elements[k]]

----------------------------------------------------------------------------
(* C15: handling a read request leaves the source file as it was, also     *)
(* when nothing is found or the file does not parse.                       *)
C15_ReadLeavesFile ==
    IsRead => sourceFile = call.sourceCode

\* a read of a file that does not parse was answered
C15_Witness ==
    /\ IsRead
    /\ ~InputAst.ok
    /\ call.outcome = Null
    /\ response.status = 200
    /\ sourceFile = call.sourceCode

----------------------------------------------------------------------------
(* C16: when the source file does not parse, update-classes answers with   *)
(* status 500 and success false and leaves the file as it was; the file    *)
(* holds new text only when updateClass returned it.                       *)
C16_ParseFailureLeavesFile ==
    IsUpdate
    => IF InputAst.ok
       THEN Returned /\ sourceFile = call.outcome.code
       ELSE /\ call.outcome.type = "throw"
            /\ response.status = 500
            /\ ~response.success
            /\ sourceFile = call.sourceCode

\* an update of a file that does not parse was answered
C16_Witness ==
    /\ IsUpdate
    /\ ~InputAst.ok
    /\ response.status = 500
    /\ sourceFile = call.sourceCode

----------------------------------------------------------------------------
(* C17: when occurrence 0 of the tag carries className as a string         *)
(* literal, getClassExpression(file, tag, 0) returns the literal's text as *)
(* it is written between the quotes.                                       *)
C17_LiteralTextVerbatim ==
    (IsRead /\ call.elementIndex = Ordinal(0) /\ InputAst.ok)
    => \A k \in AddressedNow :
          HasClassName(InputAst.elements[k])
          => LET written == call.sourceCode.elements[k].attributes[
                                ClassNameAt(InputAst.elements[k])].value
             IN  written.form = "string"
                 => call.outcome =
                      [type |-> "string",
                       value |-> SubSeq(written.text, 2, Len(written.text) - 1)]

----------------------------------------------------------------------------
(* C18: the dev server's updateClassNameWithAST, the Vite plugin's         *)
(* updateClassNameWithAST and the extension's updateFileContent give the   *)
(* same outcome for the same source, tag, new value and ordinal.           *)
C18_WritersAgree ==
    IsUpdate
    => /\ ViteUpdateClassNameWithAST(call.sourceCode, call.tagName,
                                     call.newClassName, call.elementIndex)
            = call.outcome
       /\ updateFileContent(call.sourceCode, call.tagName,
                            call.newClassName, call.elementIndex)
            = call.outcome

\* a quoted value was appended to one element and replaced on another
C18_Witness ==
    /\ IsUpdate
    /\ InputAst.ok
    /\ IsStringLiteralText(call.newClassName)
    /\ \E k \in AddressedNow : HasClassName(InputAst.elements[k])
    /\ \E k \in AddressedNow : ~HasClassName(InputAst.elements[k])
    /\ Returned
    /\ sourceFile = call.outcome.code
    /\ updateFileContent(call.sourceCode, call.tagName,
                         call.newClassName, call.elementIndex).code = sourceFile

----------------------------------------------------------------------------
(* C14: no update is lost.  Whatever the order in which the pending update *)
(* requests are handled, the file equals the result of applying the        *)
(* requests handled so far one after another in some order.                *)

\* the file after one update applied to it on its own
FileAfter(file, r) ==
    LET result == updateClassNameWithAST(file, r.tagName, r.newClassName,
                                         r.elementIndex)
    IN  IF result.type = "throw" THEN file ELSE result.code

\* the file after the requests ids[k..] applied one after another
RECURSIVE FileAfterAll(_, _, _)
FileAfterAll(file, ids, k) ==
    IF k > Len(ids) THEN file
    ELSE FileAfterAll(FileAfter(file, received[ids[k]]), ids, k + 1)

\* the orders in which the requests of the set ids can be applied
Orders(ids) ==
    {o \in [1..Cardinality(ids) -> ids] :
        \A i, j \in 1..Cardinality(ids) : i # j => o[i] # o[j]}

Served == (1..Len(received)) \ inflight

C14_NoLostUpdate ==
    \E o \in Orders(Served) : sourceFile = FileAfterAll(startFile, o, 1)

\* two updates of different elements were pending together, the later one
\* was handled first, and the file holds both
C14_Witness ==
    /\ Len(received) = 2
    /\ inflight = {}
    /\ handled = 2
    /\ received[1].elementIndex # received[2].elementIndex
    /\ call.tagName = received[1].tagName
    /\ call.newClassName = received[1].newClassName
    /\ call.elementIndex = received[1].elementIndex
    /\ call.sourceCode = FileAfter(startFile, received[2])
    /\ call.sourceCode # startFile
    /\ sourceFile # call.sourceCode
    /\ sourceFile = FileAfterAll(startFile, <<2, 1>>, 1)

----------------------------------------------------------------------------
(* The claim about edits in the sidepanel, checked under EditSpec.         *)

\* the user has edited the class text or applied changes since the last
\* selection message
EditedCurrentSelection == lastGesture \in {"edited", "applied"}

\* a read fetch whose continuation has run on a successful response that
\* carried an expression other than the one shown
StaleReadDone(f) ==
    /\ f.stage = "done"
    /\ ResponseOk(f.response)
    /\ f.response.success
    /\ f.response.classNameExpression \notin {<< >>, sourceClassNameExpression}

\* C20: once the user has edited the class text or applied changes for the
\* current selection, no step other than a further gesture or selection
\* message changes sourceClassNameExpression, so a get-classname-expression
\* response arriving afterwards does not overwrite it; and right after
\* Apply the expression shown is the applied text.
C20_EditedNotOverwritten ==
    /\ [](lastGesture = "applied" =>
            /\ sourceClassNameExpression = editedClassName
            /\ elementData.className = editedClassName)
    /\ [][(EditedCurrentSelection /\ lastGesture' = lastGesture)
            => sourceClassNameExpression' = sourceClassNameExpression]_vars

\* a response with another expression arrived after Apply and was dropped
C20_Witness ==
    /\ lastGesture = "applied"
    /\ sourceClassNameExpression = editedClassName
    /\ sourceClassNameExpression # << >>
    /\ \E f \in reads : StaleReadDone(f) /\ ~f.set

----------------------------------------------------------------------------
(* The claims about handleCreatePR, checked under PRSpec.                  *)

\* the positions in the log of the calls of an operation on a path
CallsOf(op, path) == {i \in 1..Len(log) : log[i].op = op /\ log[i].path = path}

\* the commits made to a path
Commits(path) == {i \in CallsOf("updateFile", path) : log[i].ok}

\* the repository paths of the selected changes
SelectedPaths ==
    {RepoPathOf(pr.selectedChanges[i].filePath) : i \in 1..Len(pr.selectedChanges)}

\* the selected changes of a repository path, in list order
ChangesOfPath(path) ==
    SelectSeq(pr.selectedChanges, LAMBDA c : RepoPathOf(c.filePath) = path)

\* all selected changes of a path applied in list order to the file the
\* branch started with
Cumulative(path) == ApplyChanges(FileAt(baseFiles, path), ChangesOfPath(path), 1)

\* the path's content was fetched and every change of the path applied
Processed(path) ==
    /\ \E i \in CallsOf("getFileContent", path) : log[i].ok
    /\ Cumulative(path).type = "return"

\* C19 as stated: when a pull request is created, every repository path of
\* the selected changes has been committed exactly once.
C19_EveryPathCommittedOnce ==
    pr.outcome = "created" =>
        \A path \in SelectedPaths : Cardinality(Commits(path)) = 1

\* C19, amended: each repository path of the selected changes is fetched at
\* most once and committed at most once per pull request, every file change
\* built carries the fetched blob and the content obtained by applying all
\* selected changes of its path in list order, and when the pull request is
\* created a path is committed exactly once, with that content, if its
\* content was fetched and its changes applied, and not at all otherwise.
C19_GroupedCommit ==
    /\ \A path \in SelectedPaths :
          /\ Cardinality(CallsOf("getFileContent", path)) <= 1
          /\ Cardinality(CallsOf("updateFile", path)) <= 1
    /\ \A i \in 1..Len(pr.fileChanges) :
          /\ pr.fileChanges[i].path \in SelectedPaths
          /\ pr.fileChanges[i].sha = BlobSha(FileAt(baseFiles, pr.fileChanges[i].path))
          /\ Cumulative(pr.fileChanges[i].path) =
                 [type |-> "return", code |-> pr.fileChanges[i].content]
    /\ pr.outcome = "created" =>
          \A path \in SelectedPaths :
             IF Processed(path)
             THEN /\ Cardinality(Commits(path)) = 1
                  /\ FileAt(branchFiles, path) = Cumulative(path).code
             ELSE Commits(path) = {}

\* a pull request was created with one commit for a file that two selected
\* changes, recorded under different paths, edit one after the other
C19_Witness ==
    /\ pr.outcome = "created"
    /\ \E path \in SelectedPaths :
          /\ Len(ChangesOfPath(path)) >= 2
          /\ ChangesOfPath(path)[1].filePath # ChangesOfPath(path)[2].filePath
          /\ ChangesOfPath(path)[1].newClassName # ChangesOfPath(path)[2].newClassName
          /\ Cardinality(Commits(path)) = 1
          /\ FileAt(branchFiles, path) # FileAt(baseFiles, path)

----------------------------------------------------------------------------
(* Further claims about the sidepanel, checked under PanelSpec.            *)

\* an element is selected and the read fetch f asks for the element that the
\* latest ELEMENT_SELECTED message named
ForCurrentSelection(f) ==
    /\ isSelected
    /\ \E g \in reads :
          /\ \A h \in reads : h.id <= g.id
          /\ g.tagName = f.tagName
          /\ g.elementIndex = f.elementIndex

\* the continuation of the read fetch f runs in this step and sets
\* sourceClassNameExpression
ReadSets(f) ==
    /\ f.stage = "answered"
    /\ [f EXCEPT !.stage = "done", !.set = TRUE] \in reads'

\* C21: a response to a read request issued for a previously selected
\* element, or for an element that has since been deselected, never sets
\* sourceClassNameExpression; and the expression is empty while nothing is
\* selected.
C21_OnlyCurrentSelectionSets ==
    /\ [](~isSelected => sourceClassNameExpression = << >>)
    /\ [][\A f \in reads : ReadSets(f) => ForCurrentSelection(f)]_vars

----------------------------------------------------------------------------
(* The claims about the content script and its messages, checked under     *)
(* ContentSpec and ScriptSpec.                                             *)

\* C22: every ELEMENT_SELECTED message on its way to the sidepanel carries
\* an elementIndex, and every read request the sidepanel has issued is
\* addressed by tag name and elementIndex.
C22_SelectionCarriesIndex ==
    /\ \A m \in toPanel : m.type = "ELEMENT_SELECTED" => m.elementIndex.defined
    /\ \A f \in reads : f.elementIndex.defined

\* the messages the content script sends in this step
SentNow == {m \in toPanel' \ toPanel : ~m.relayed}

\* C23: an element is selected only while selection mode is enabled; while
\* the mode stays off no step selects an element or sends a selection
\* message (a click changes nothing); and a step that turns the mode off
\* leaves nothing selected and, if an element was selected, sends
\* ELEMENT_DESELECTED.
C23_SelectedOnlyInSelectionMode ==
    /\ [](selectedElement # NoTarget => selectionModeEnabled)
    /\ [][(~selectionModeEnabled /\ ~selectionModeEnabled')
            => /\ UNCHANGED selectedElement
               /\ \A m \in SentNow : m.type = "HOVER_ELEMENT"]_vars
    /\ [][(selectionModeEnabled /\ ~selectionModeEnabled')
            => /\ selectedElement' = NoTarget
               /\ selectedElement # NoTarget =>
                     \E m \in toPanel' \ toPanel :
                        m.type = "ELEMENT_DESELECTED"]_vars

\* selection mode was turned off with an element selected: nothing is
\* selected and the ELEMENT_DESELECTED of the toggle handler is under way
C23_Witness ==
    /\ ~selectionModeEnabled
    /\ selectedElement = NoTarget
    /\ \E m \in toPanel :
          /\ m.type = "ELEMENT_DESELECTED"
          /\ m.by = "toggle"
          /\ m.id = sent

----------------------------------------------------------------------------
(* The claim about recording changes, checked under PanelSpec.             *)

\* the change of the save fetch f is appended in this step
Appends(f) == githubChanges' = Append(githubChanges, ChangeItem(f))

\* the storage callback of the mount effect runs in this step; it restores
\* the list an earlier session saved
StorageStep == Outstanding("storage") /\ pending' # pending

\* every change recorded in this session belongs to an update request that
\* was sent and answered with a success status
RecordedAfterSuccess ==
    \A i \in 1..Len(githubChanges) :
        \/ githubChanges[i] = StoredChange
        \/ \E f \in saves :
              /\ f.id = githubChanges[i].id
              /\ f.stage = "done"
              /\ ResponseOk(f.response)

\* after the list is restored from storage, githubChanges grows only by the
\* change of an update request that has been answered with a success status
AppendedOnSuccess ==
    (githubChanges' # githubChanges /\ ~StorageStep) =>
        \E f \in saves :
            /\ f.stage = "answered"
            /\ ResponseOk(f.response)
            /\ Appends(f)

\* C24: a change is appended to githubChanges only when the server has
\* answered the change's update request with a success status, and only
\* while GitHub is connected with a repository chosen; a request that fails
\* or is never sent adds no change.
C24_RecordedOnlyWhenPersisted ==
    /\ []RecordedAfterSuccess
    /\ [][AppendedOnSuccess]_vars
    /\ [][(githubChanges' # githubChanges /\ ~StorageStep) =>
            (isGithubConnected /\ githubRepo # << >>)]_vars

----------------------------------------------------------------------------
(* Further claims about handleCreatePR, checked under PRSpec.              *)

\* the place of a GitHub call in the order of handleCreatePR
Rank(op) ==
    CASE op = "getDefaultBranch" -> 1
      [] op = "createBranch" -> 2
      [] op = "getFileContent" -> 3
      [] op = "updateFile" -> 4
      [] op = "createPullRequest" -> 5

\* the positions in the log of the calls of an operation
Calls(op) == {i \in 1..Len(log) : log[i].op = op}

\* at least one file change was built and each was committed
AllCommitted ==
    /\ Len(pr.fileChanges) >= 1
    /\ Cardinality(Calls("updateFile")) = Len(pr.fileChanges)
    /\ \A i \in Calls("updateFile") : log[i].ok

\* C25: the GitHub calls of handleCreatePR come in the order
\* getDefaultBranch, createBranch, getFileContent per file, updateFile per
\* file change, createPullRequest, each step but getFileContent ending the
\* run when it fails; no file is read or committed before createBranch has
\* succeeded, and createPullRequest is called only when at least one file
\* change was built and every commit succeeded.
C25_StepsInOrder ==
    /\ \A i, j \in 1..Len(log) : i < j => Rank(log[i].op) <= Rank(log[j].op)
    /\ \A op \in {"getDefaultBranch", "createBranch", "createPullRequest"} :
          Cardinality(Calls(op)) <= 1
    /\ Len(log) >= 1 => log[1].op = "getDefaultBranch"
    /\ \A i \in 1..(Len(log) - 1) : log[i].op # "getFileContent" => log[i].ok
    /\ \A i \in Calls("getFileContent") \cup Calls("updateFile") :
          \E j \in 1..(i - 1) : log[j].op = "createBranch" /\ log[j].ok
    /\ (pr.pc = "createPullRequest" \/ Calls("createPullRequest") # {})
          => AllCommitted

\* a pull request was created after one file could not be read and another
\* was read and committed
C25_Witness ==
    /\ pr.outcome = "created"
    /\ \E i \in Calls("getFileContent") : ~log[i].ok
    /\ \E i \in Calls("getFileContent") : log[i].ok
    /\ Calls("updateFile") # {}
    /\ log[Len(log)].op = "createPullRequest"

\* the ids of the changes that were selected when handleCreatePR started
SelectedIds == {pr.selectedChanges[i].id : i \in 1..Len(pr.selectedChanges)}

\* the changes of a list that were not selected when handleCreatePR started
NotSelectedThen(changes) == SelectSeq(changes, LAMBDA c : c.id \notin SelectedIds)

\* handleCreatePR ends in this step with the given outcome
Ends(outcome) == pr.pc # "idle" /\ pr'.pc = "idle" /\ pr'.outcome = outcome

\* C26: a step of handleCreatePR leaves githubChanges as it is, except the
\* step that ends it with the pull request created, which removes exactly
\* the changes that were selected when it started and keeps every other
\* change, in order.
C26_RemovesSelectedOnSuccess ==
    /\ [][Ends("failed") => githubChanges' = githubChanges]_vars
    /\ [][(pr' # pr /\ ~Ends("created")) => githubChanges' = githubChanges]_vars
    /\ [][Ends("created") => githubChanges' = NotSelectedThen(githubChanges)]_vars

\* a pull request was created, a change that was not selected is still
\* pending and the selected ones are gone
C26_Witness ==
    /\ pr.outcome = "created"
    /\ githubChanges # << >>
    /\ SelectedIds # {}
    /\ \A i \in 1..Len(githubChanges) : githubChanges[i].id \notin SelectedIds

\* C27: when a pull request has been created, a change that was selected
\* but whose file has no commit in it is still pending.
C27_UncommittedStaysPending ==
    pr.outcome = "created" =>
        \A i \in 1..Len(pr.selectedChanges) :
            Commits(RepoPathOf(pr.selectedChanges[i].filePath)) = {} =>
                \E j \in 1..Len(githubChanges) :
                    githubChanges[j].id = pr.selectedChanges[i].id

----------------------------------------------------------------------------
(* The claim about two updates, checked under CommuteSpec.                 *)

\* two updates were applied in both orders to a file that parses, to
\* different (tag, ordinal) targets
TwoTargets ==
    /\ call.fn = "updateClassNameWithAST twice"
    /\ Parse(call.sourceCode).ok
    /\ <<call.first.tagName, call.first.elementIndex>>
          # <<call.second.tagName, call.second.elementIndex>>

\* the text has the elements of the tags of the source file, in its order
SameElements(code) ==
    /\ Parse(code).ok
    /\ Len(Parse(code).elements) = Len(Parse(call.sourceCode).elements)
    /\ \A k \in 1..Len(Parse(code).elements) :
          Parse(code).elements[k].name = Parse(call.sourceCode).elements[k].name

\* the k-th elements of the two texts have the same className, or none
SameClassName(a, b, k) ==
    /\ HasClassName(Parse(a).elements[k]) = HasClassName(Parse(b).elements[k])
    /\ HasClassName(Parse(a).elements[k]) =>
          ClassNameValue(Parse(a).elements[k]) = ClassNameValue(Parse(b).elements[k])

\* C28: two updates addressed to different (tag, ordinal) targets return,
\* in either order, a text with the elements of the source file in their
\* order, and the two texts have the same className on every element.
C28_UpdatesCommute ==
    TwoTargets =>
        /\ call.firstSecond.type = "return"
        /\ call.secondFirst.type = "return"
        /\ SameElements(call.firstSecond.code)
        /\ SameElements(call.secondFirst.code)
        /\ \A k \in 1..Len(Parse(call.sourceCode).elements) :
              SameClassName(call.firstSecond.code, call.secondFirst.code, k)

=============================================================================
